---- MODULE Spec2Model ----
(***************************************************************************)
(* Crawl-and-extract engine of plugin-basic: retryOperation,               *)
(* extractDataByPattern, crawlAndExtract and the two validateTwitter-      *)
(* Username caches (seleniumflexibleAction.ts, seleniumProfilesAction.ts). *)
(* Every browser call is a suspension point whose outcome (a value or a    *)
(* failure) is chosen by the environment when the call is made.            *)
(***************************************************************************)
EXTENDS Integers, Sequences, FiniteSets, TLC

(***************************************************************************)
(* Bounds of the model.                                                    *)
(***************************************************************************)
MaxAttempts == 4

\* Selectors of a pattern, elements a selector finds, matches in one text.
NumSelectors == 2

MaxElements == 1

MaxMatches == 2

\* Interactive elements driver.findElements returns on one page.
MaxInteractive == 1

\* Interactive elements seleniumProfilesAction.handler finds on its page.
MaxProfileElements == 2

\* Pieces of TWITTER_TARGET_USERS when the process starts.
MaxListed == 3

\* Elements of a seed page of the email and phone scenario.
MaxPageElements == 2

VARIABLES
    \* ---- retryOperation (one invocation) ----
    rPc,         \* position: "idle", "attempt", "refresh", "driverSleep",
                 \*           "timerSleep", "returned", "thrown"
    rMax,        \* parameter maxRetries
    rDriver,     \* TRUE iff the optional driver parameter was supplied
    rI,          \* loop variable i
    rLastError,  \* local lastError
    rOut,        \* value returned or failure raised to the caller
    rCalls,      \* number of times operation() has been invoked
    rRefreshes,  \* number of driver.navigate().refresh() calls
    rSleeps,     \* number of sleeps (driver.sleep or setTimeout)
    rSucceeded,  \* TRUE iff an invocation of operation() has succeeded
    \* ---- process-wide state and the browser session of the running handler ----
    hAction,             \* handler that is running: "none", "flexible", "profiles"
    validatedFlexible,   \* validatedProfiles of seleniumflexibleAction.ts
    validatedProfiles,   \* validatedProfiles of seleniumProfilesAction.ts
    bWindows,            \* window handles open in the session
    bActive,             \* active window handle (0: none)
    \* ---- validateTwitterUsername (one invocation) ----
    vPc,          \* position: "idle", the name of the pending browser call, "returned"
    vCaller,      \* which copy of the function runs: "flexible" or "profiles"
    vUser,        \* parameter username
    vDriver,      \* TRUE iff the driver argument is a browser session
    vMainWindow,  \* local mainWindow
    vWindows,     \* local windows
    vIsValid,     \* local isValid
    vResult,      \* value returned
    \* ---- observation of the validation calls ----
    vCacheHit,    \* the current query was answered from the cache
    vNavigated,   \* the current query called driver.get on the profile URL
    vFirstQuery,  \* the current query is the first one for its handle
    vFailed,      \* the current query ended in the catch block
    vFailedBefore, \* an earlier query for the same handle ended in the catch block
    vEntryWindows, \* bWindows when the current query began
    vEntryActive,  \* bActive when the current query began
    queried,      \* handles queried so far, by either action
    vRaw,         \* the username of the current query as the page spells it
    rawQueried,   \* the spellings the callers of validateTwitterUsername met so far
    failedHandles, \* handles whose validation ended in the catch block
    navCount,     \* per handle, the number of driver.get calls on its profile URL
    \* ---- extractDataByPattern (one invocation) ----
    ePc,        \* position: "idle", "waitBody", "findElements", "getText", "done"
    ePattern,   \* parameter pattern (a key of dataPatterns)
    eResults,   \* local results: a Set, as the sequence of its values in insertion order
    eSelector,  \* index of the selector of the for loop
    eElements,  \* elements of the current selector still to be processed
    eLog,       \* calls of transform and validate made for the current element
    eSkipped,   \* selectors whose element lookup ended in the selector's catch
    nextObject, \* identity of the next object the program allocates
    \* ---- the page shown by the active window ----
    bUrl,       \* URL of the document
    bDom,       \* version of the serialized DOM: a click that reveals content raises it
    \* ---- crawlAndExtract (one invocation) ----
    cPc,          \* position: "idle", the name of the pending call, "done"
    cBaseUrl,     \* parameter baseUrl
    cPattern,     \* parameter pattern (a key of dataPatterns)
    cResults,     \* local results: a Set, as the sequence of its values
    visitedUrls,  \* local visitedUrls
    urlsToVisit,  \* local urlsToVisit
    cCurrentUrl,  \* local currentUrl
    cElements,    \* interactive elements of the page still to be processed
    cBeforeState, \* local beforeState
    cAfterState,  \* local afterState (-1: not obtained)
    cNavigated,   \* URLs passed to driver.get by the loop, in order
    cCaught,      \* URLs whose processing ended in the URL's catch block
    cDisplayed,   \* what the latest visibility check returned ("none": none returned yet)
    \* ---- one invocation of a handler (seleniumflexibleAction or seleniumProfilesAction) ----
    hPc,          \* position: "idle", the name of the pending call, "finally", "returned"
    hDriver,      \* local driver: TRUE iff it holds a session (not null)
    hUrl,         \* local websiteUrl ("none": undefined)
    hTypes,       \* flexible: the keys of dataTypes still to be crawled
    hResults,     \* flexible: local results, as the sequence of its entries
    hCallbacks,   \* the messages passed to callback, in order
    hReturn,      \* value of the return statement executed ("none": not yet)
    hQuits,       \* number of driver.quit() calls
    hSessions,    \* number of sessions created
    hRace,        \* profiles: operations of the Promise.race still outstanding
    hIndex,       \* profiles: loop variable i
    hCount,       \* profiles: elements.length
    hCurrentUrl,  \* profiles: local currentUrl
    hProfiles,    \* profiles: local allProfiles
    hRequest,     \* the URL of message.content.text and the WEBSITE_URL setting
    hFailure,     \* the failure the handler's catch block received ("none": none)
    \* ---- extractProfilesFromCurrentPage (one invocation) ----
    xPc,          \* position: "idle", the name of the pending call, "done", "thrown"
    xUsernames,   \* potentialUsernames still to be processed, in order
    xProfiles,    \* local profiles
    \* ---- the registry dataPatterns and the regex objects it holds ----
    registry,     \* dataPatterns: its entries [key, spec] in Object.entries order
    lastIndex,    \* per key with a global regex, the lastIndex of that regex object
    \* ---- the flexible action on one seed page, every browser call succeeding ----
    sPage,        \* the elements of the seed page, in document order
    sResults,     \* the result mapping, as the sequence of its entries
    \* ---- process.env ----
    targetUsers,  \* TWITTER_TARGET_USERS, as the pieces between its commas
    \* ---- determineDataTypes (the last invocation) ----
    dText,        \* parameter text ("none": not called yet)
    dTypes,       \* value returned
    dFailed,      \* TRUE iff the invocation raised a failure
    dSynth,       \* the specification the classifier synthesized (NoSynth: none)
    dAnswer       \* what the classifier answered at line 536 ("none": not asked, or it raised)

retryVars == <<rPc, rMax, rDriver, rI, rLastError, rOut, rCalls, rRefreshes, rSleeps,
               rSucceeded>>

sessionVars == <<hAction, bWindows, bActive>>

cacheVars == <<validatedFlexible, validatedProfiles>>

validateVars == <<vPc, vCaller, vUser, vDriver, vMainWindow, vWindows, vIsValid, vResult,
                  vCacheHit, vNavigated, vFirstQuery, vFailed, vFailedBefore,
                  vEntryWindows, vEntryActive, queried, failedHandles, navCount,
                  vRaw, rawQueried>>

\* The spellings seen by the callers of validateTwitterUsername.
rawVars == <<vRaw, rawQueried>>

extractVars == <<ePc, ePattern, eResults, eSelector, eElements, eLog, eSkipped,
                 nextObject>>

pageVars == <<bUrl, bDom>>

crawlVars == <<cPc, cBaseUrl, cPattern, cResults, visitedUrls, urlsToVisit, cCurrentUrl,
               cElements, cBeforeState, cAfterState, cNavigated,
               cCaught, cDisplayed>>

handlerVars == <<hPc, hDriver, hUrl, hTypes, hResults, hCallbacks, hReturn, hQuits,
                 hSessions, hRace, hIndex, hCount, hCurrentUrl, hProfiles, hRequest,
                 hFailure>>

profilePageVars == <<xPc, xUsernames, xProfiles>>

registryVars == <<registry, lastIndex>>

determineVars == <<dText, dTypes, dFailed, dSynth, dAnswer>>

scenarioVars == <<sPage, sResults, targetUsers>>

vars == <<retryVars, sessionVars, cacheVars, validateVars, extractVars, pageVars,
          crawlVars, handlerVars, profilePageVars, registryVars, determineVars, scenarioVars>>

\* What a step of retryOperation leaves alone (the page apart).
retryFrame == <<sessionVars, cacheVars, validateVars, extractVars, crawlVars,
                handlerVars, profilePageVars, registryVars, determineVars, scenarioVars>>

\* What a step of validateTwitterUsername or of its callers leaves alone.
validateFrame == <<retryVars, extractVars, pageVars, crawlVars, handlerVars,
                   profilePageVars, registryVars, determineVars, scenarioVars>>

\* What a step of extractDataByPattern leaves alone besides the session.
extractFrame == <<pageVars, crawlVars, handlerVars, profilePageVars, determineVars, scenarioVars>>

\* No handler is running.
HandlerIdle ==
    /\ hPc = "idle"
    /\ hDriver = FALSE
    /\ hUrl = "none"
    /\ hTypes = <<>>
    /\ hResults = <<>>
    /\ hCallbacks = <<>>
    /\ hReturn = "none"
    /\ hQuits = 0
    /\ hSessions = 0
    /\ hRace = {}
    /\ hIndex = 0
    /\ hCount = 0
    /\ hCurrentUrl = "none"
    /\ hProfiles = <<>>
    /\ hRequest = [url |-> "none", setting |-> "none"]
    /\ hFailure = "none"

ProfilePageIdle ==
    /\ xPc = "idle"
    /\ xUsernames = <<>>
    /\ xProfiles = <<>>

(***************************************************************************)
(* retryOperation                                                          *)
(***************************************************************************)
StaleName == "StaleElementReferenceError"

\* Failure classes an operation can raise: the stale class and any other.
ErrorNames == {StaleName, "TimeoutError"}

NoValue == [kind |-> "none", src |-> "none", name |-> "none", attempt |-> 0]

\* The failure raised by the attempt-th invocation of the operation.
OperationError(name, attempt) ==
    [kind |-> "error", src |-> "operation", name |-> name, attempt |-> attempt]

\* The value returned by the attempt-th invocation of the operation.
OperationValue(attempt) ==
    [kind |-> "value", src |-> "operation", name |-> "result", attempt |-> attempt]

\* The failure raised by driver.navigate().refresh() after the attempt-th invocation.
RefreshError(attempt) ==
    [kind |-> "error", src |-> "refresh", name |-> "WebDriverError", attempt |-> attempt]

\* Entry of retryOperation: lastError undefined, i = 0.
RetryEnter(maxRetries, driver) ==
    /\ rPc' = (IF 0 < maxRetries THEN "attempt" ELSE "thrown")
    /\ rMax' = maxRetries
    /\ rDriver' = driver
    /\ rI' = 0
    /\ rLastError' = NoValue
    /\ rOut' = NoValue
    /\ rCalls' = 0
    /\ rRefreshes' = 0
    /\ rSleeps' = 0
    /\ rSucceeded' = FALSE

RetryIdle ==
    /\ rPc = "idle"
    /\ rMax = 0
    /\ rDriver = FALSE
    /\ rI = 0
    /\ rLastError = NoValue
    /\ rOut = NoValue
    /\ rCalls = 0
    /\ rRefreshes = 0
    /\ rSleeps = 0
    /\ rSucceeded = FALSE

\* The frame of a finished retryOperation is dropped.
RetryLeave ==
    /\ rPc' = "idle"
    /\ rMax' = 0
    /\ rDriver' = FALSE
    /\ rI' = 0
    /\ rLastError' = NoValue
    /\ rOut' = NoValue
    /\ rCalls' = 0
    /\ rRefreshes' = 0
    /\ rSleeps' = 0
    /\ rSucceeded' = FALSE

\* Faulty variant: a success that follows a failure still raises lastError.
OperationSucceedsButRaises ==
    /\ rPc = "attempt"
    /\ rCalls' = rCalls + 1
    /\ IF rLastError = NoValue
         THEN rPc' = "returned" /\ rOut' = OperationValue(rCalls + 1)
         ELSE rPc' = "thrown" /\ rOut' = rLastError
    /\ rSucceeded' = TRUE
    /\ UNCHANGED <<rMax, rDriver, rI, rLastError, rRefreshes, rSleeps, retryFrame, pageVars>>

\* try { return await operation(); } with the operation succeeding.
OperationSucceeds ==
    /\ rPc = "attempt"
    /\ rCalls' = rCalls + 1
    /\ rPc' = "returned"
    /\ rOut' = OperationValue(rCalls + 1)
    /\ rSucceeded' = TRUE
    /\ UNCHANGED <<rMax, rDriver, rI, rLastError, rRefreshes, rSleeps, retryFrame, pageVars>>

\* Faulty variant: lastError keeps the first failure instead of the latest.
OperationFailsKeepsFirstError(name) ==
    /\ rPc = "attempt"
    /\ rCalls' = rCalls + 1
    /\ LET error == OperationError(name, rCalls + 1) IN
         /\ rLastError' = (IF rLastError = NoValue THEN error ELSE rLastError)
         /\ IF name = StaleName /\ rDriver
              THEN rPc' = "refresh" /\ rOut' = rOut
              ELSE IF rI = rMax - 1
                     THEN rPc' = "thrown" /\ rOut' = error
                     ELSE rPc' = "timerSleep" /\ rOut' = rOut
    /\ UNCHANGED <<rMax, rDriver, rI, rRefreshes, rSleeps, rSucceeded, retryFrame, pageVars>>

\* Faulty variant: the stale path sleeps without refreshing the page.
OperationFailsNoRefresh(name) ==
    /\ rPc = "attempt"
    /\ rCalls' = rCalls + 1
    /\ LET error == OperationError(name, rCalls + 1) IN
         /\ rLastError' = error
         /\ IF name = StaleName /\ rDriver
              THEN rPc' = "driverSleep" /\ rOut' = rOut
              ELSE IF rI = rMax - 1
                     THEN rPc' = "thrown" /\ rOut' = error
                     ELSE rPc' = "timerSleep" /\ rOut' = rOut
    /\ UNCHANGED <<rMax, rDriver, rI, rRefreshes, rSleeps, rSucceeded, retryFrame, pageVars>>

\* catch (error): lastError = error, then the stale test, then the give-up test.
OperationFails(name) ==
    /\ rPc = "attempt"
    /\ rCalls' = rCalls + 1
    /\ LET error == OperationError(name, rCalls + 1) IN
         /\ rLastError' = error
         /\ IF name = StaleName /\ rDriver
              THEN rPc' = "refresh" /\ rOut' = rOut
              ELSE IF rI = rMax - 1
                     THEN rPc' = "thrown" /\ rOut' = error
                     ELSE rPc' = "timerSleep" /\ rOut' = rOut
    /\ UNCHANGED <<rMax, rDriver, rI, rRefreshes, rSleeps, rSucceeded, retryFrame, pageVars>>

\* await driver.navigate().refresh(): inside the catch block, so its own
\* failure leaves retryOperation at once. A reload shows the document as
\* loaded: what clicks revealed is gone.
RefreshPage(ok) ==
    /\ rPc = "refresh"
    /\ rRefreshes' = rRefreshes + 1
    /\ IF ok
         THEN rPc' = "driverSleep" /\ rOut' = rOut /\ bDom' = 0
         ELSE rPc' = "thrown" /\ rOut' = RefreshError(rCalls) /\ bDom' = bDom
    /\ UNCHANGED <<rMax, rDriver, rI, rLastError, rCalls, rSleeps, rSucceeded,
                   retryFrame, bUrl>>

\* await driver.sleep(delay); continue;  then i++ and the loop test; when the
\* loop is left, throw lastError.
DriverSleep ==
    /\ rPc = "driverSleep"
    /\ rSleeps' = rSleeps + 1
    /\ rI' = rI + 1
    /\ IF rI + 1 < rMax
         THEN rPc' = "attempt" /\ rOut' = rOut
         ELSE rPc' = "thrown" /\ rOut' = rLastError
    /\ UNCHANGED <<rMax, rDriver, rLastError, rCalls, rRefreshes, rSucceeded, retryFrame, pageVars>>

\* await new Promise(resolve => setTimeout(resolve, delay)); then i++ and the
\* loop test (i < maxRetries - 1 here, so the loop goes on).
TimerSleep ==
    /\ rPc = "timerSleep"
    /\ rSleeps' = rSleeps + 1
    /\ rI' = rI + 1
    /\ IF rI + 1 < rMax
         THEN rPc' = "attempt" /\ rOut' = rOut
         ELSE rPc' = "thrown" /\ rOut' = rLastError
    /\ UNCHANGED <<rMax, rDriver, rLastError, rCalls, rRefreshes, rSucceeded, retryFrame, pageVars>>

(***************************************************************************)
(* validateTwitterUsername and its two caches                              *)
(***************************************************************************)
\* Usernames as they occur in page text.
RawHandles == {"Alice", "alice", "bob"}

\* String.prototype.toLowerCase on the usernames of the model.
ToLowerCase(raw) == IF raw = "Alice" THEN "alice" ELSE raw

Handles == {ToLowerCase(raw) : raw \in RawHandles}

\* A Map<string, boolean> as a function: "absent" for a key the map lacks.
EmptyMap == [h \in Handles |-> "absent"]

MapHas(map, key) == map[key] # "absent"

MapGet(map, key) == map[key] = "valid"

MapSet(map, key, bool) == [map EXCEPT ![key] = IF bool THEN "valid" ELSE "invalid"]

\* The module-level map the running copy of validateTwitterUsername uses.
CacheOf(caller) == IF caller = "flexible" THEN validatedFlexible ELSE validatedProfiles

SetMax(S) == CHOOSE x \in S : \A y \in S : y <= x

ValidateIdle ==
    /\ vPc = "idle"
    /\ vCaller = "none"
    /\ vUser = "none"
    /\ vDriver = FALSE
    /\ vMainWindow = 0
    /\ vWindows = {}
    /\ vIsValid = FALSE
    /\ vResult = FALSE
    /\ vCacheHit = FALSE
    /\ vNavigated = FALSE
    /\ vFirstQuery = FALSE
    /\ vFailed = FALSE
    /\ vFailedBefore = FALSE
    /\ vEntryWindows = {}
    /\ vEntryActive = 0
    /\ queried = {}
    /\ vRaw = "none"
    /\ rawQueried = {}
    /\ failedHandles = {}
    /\ navCount = [h \in Handles |-> 0]

\* Process start: no handler runs, both caches are empty.
ProcessStart ==
    /\ hAction = "none"
    /\ bWindows = {}
    /\ bActive = 0
    /\ validatedFlexible = EmptyMap
    /\ validatedProfiles = EmptyMap

\* A query that is answered without calling into the browser.
AnswerFromCache(caller, username) ==
    /\ vPc' = "returned"
    /\ vResult' = MapGet(CacheOf(caller), username)
    /\ vCacheHit' = TRUE
    /\ UNCHANGED <<sessionVars, cacheVars, vMainWindow, vWindows, vIsValid>>

\* Bookkeeping common to every query for a handle.
ObserveQuery(caller, username, driver) ==
    /\ vCaller' = caller
    /\ vUser' = username
    /\ vDriver' = driver
    /\ vNavigated' = FALSE
    /\ vFailed' = FALSE
    /\ vFirstQuery' = (username \notin queried)
    /\ vFailedBefore' = (username \in failedHandles)
    /\ queried' = queried \cup {username}
    /\ vEntryWindows' = bWindows
    /\ vEntryActive' = bActive
    /\ UNCHANGED <<failedHandles, navCount>>

\* Entry of validateTwitterUsername: the cache check.
ValidateTwitterUsername(caller, username, driver) ==
    /\ ObserveQuery(caller, username, driver)
    /\ IF MapHas(CacheOf(caller), username)
         THEN AnswerFromCache(caller, username)
         ELSE /\ vPc' = "getWindowHandle"
              /\ vCacheHit' = FALSE
              /\ UNCHANGED <<sessionVars, cacheVars, vMainWindow, vWindows, vIsValid,
                             vResult>>

\* catch (error): validatedProfiles.set(username, false); return false.
\* The browser is left as the failing call left it.
ValidationCatch ==
    /\ vPc' = "returned"
    /\ vFailed' = TRUE
    /\ vResult' = FALSE
    /\ failedHandles' = failedHandles \cup {vUser}
    /\ IF vCaller = "flexible"
         THEN /\ validatedFlexible' = MapSet(validatedFlexible, vUser, FALSE)
              /\ UNCHANGED validatedProfiles
         ELSE /\ validatedProfiles' = MapSet(validatedProfiles, vUser, FALSE)
              /\ UNCHANGED validatedFlexible

\* const mainWindow = await driver.getWindowHandle();  an undefined driver
\* makes the call itself throw.
GetWindowHandle(ok) ==
    /\ vPc = "getWindowHandle"
    /\ ok => (vDriver /\ bActive # 0)
    /\ IF ok
         THEN /\ vMainWindow' = bActive
              /\ vPc' = "windowOpen"
              /\ UNCHANGED <<cacheVars, vResult, vFailed, failedHandles>>
         ELSE /\ ValidationCatch
              /\ UNCHANGED vMainWindow
    /\ UNCHANGED <<sessionVars, vCaller, vUser, vDriver, vWindows, vIsValid, vCacheHit,
                   vNavigated, vFirstQuery, vFailedBefore, vEntryWindows, vEntryActive, queried, rawVars,
                   navCount, validateFrame>>

\* await driver.executeScript('window.open()');
WindowOpen(ok) ==
    /\ vPc = "windowOpen"
    /\ ok => bActive # 0
    /\ IF ok
         THEN /\ bWindows' = bWindows \cup {SetMax(bWindows) + 1}
              /\ vPc' = "getAllWindowHandles"
              /\ UNCHANGED <<cacheVars, vResult, vFailed, failedHandles>>
         ELSE /\ ValidationCatch
              /\ UNCHANGED bWindows
    /\ UNCHANGED <<hAction, bActive, vCaller, vUser, vDriver, vMainWindow, vWindows,
                   vIsValid, vCacheHit, vNavigated, vFirstQuery, vFailedBefore, vEntryWindows,
                   vEntryActive, queried, rawVars, navCount, validateFrame>>

\* const windows = await driver.getAllWindowHandles();
GetAllWindowHandles(ok) ==
    /\ vPc = "getAllWindowHandles"
    /\ IF ok
         THEN /\ vWindows' = bWindows
              /\ vPc' = "switchToNew"
              /\ UNCHANGED <<cacheVars, vResult, vFailed, failedHandles>>
         ELSE /\ ValidationCatch
              /\ UNCHANGED vWindows
    /\ UNCHANGED <<sessionVars, vCaller, vUser, vDriver, vMainWindow, vIsValid,
                   vCacheHit, vNavigated, vFirstQuery, vFailedBefore, vEntryWindows, vEntryActive,
                   queried, rawVars, navCount, validateFrame>>

\* await driver.switchTo().window(windows[windows.length - 1]);
SwitchToNew(ok) ==
    /\ vPc = "switchToNew"
    /\ IF ok
         THEN /\ bActive' = SetMax(vWindows)
              /\ vPc' = "get"
              /\ UNCHANGED <<cacheVars, vResult, vFailed, failedHandles>>
         ELSE /\ ValidationCatch
              /\ UNCHANGED bActive
    /\ UNCHANGED <<hAction, bWindows, vCaller, vUser, vDriver, vMainWindow, vWindows,
                   vIsValid, vCacheHit, vNavigated, vFirstQuery, vFailedBefore, vEntryWindows,
                   vEntryActive, queried, rawVars, navCount, validateFrame>>

\* await driver.get(`https://x.com/${username}`);
GetProfileUrl(ok) ==
    /\ vPc = "get"
    /\ navCount' = [navCount EXCEPT ![vUser] = @ + 1]
    /\ vNavigated' = TRUE
    /\ IF ok
         THEN /\ vPc' = "sleep"
              /\ UNCHANGED <<cacheVars, vResult, vFailed, failedHandles>>
         ELSE ValidationCatch
    /\ UNCHANGED <<sessionVars, vCaller, vUser, vDriver, vMainWindow, vWindows,
                   vIsValid, vCacheHit, vFirstQuery, vFailedBefore, vEntryWindows, vEntryActive,
                   queried, rawVars, validateFrame>>

\* await driver.sleep(2000);
SettleSleep ==
    /\ vPc = "sleep"
    /\ vPc' = "executeScript"
    /\ UNCHANGED <<sessionVars, cacheVars, vCaller, vUser, vDriver, vMainWindow,
                   vWindows, vIsValid, vResult, vCacheHit, vNavigated, vFirstQuery,
                   vFailed, vFailedBefore, vEntryWindows, vEntryActive, queried, rawVars, failedHandles,
                   navCount, validateFrame>>

\* const isValid = await driver.executeScript(checkProfile);
CheckProfile(ok, isValid) ==
    /\ vPc = "executeScript"
    /\ IF ok
         THEN /\ vIsValid' = isValid
              /\ vPc' = "close"
              /\ UNCHANGED <<cacheVars, vResult, vFailed, failedHandles>>
         ELSE /\ ValidationCatch
              /\ UNCHANGED vIsValid
    /\ UNCHANGED <<sessionVars, vCaller, vUser, vDriver, vMainWindow, vWindows,
                   vCacheHit, vNavigated, vFirstQuery, vFailedBefore, vEntryWindows, vEntryActive,
                   queried, rawVars, navCount, validateFrame>>

\* await driver.close();
CloseWindow(ok) ==
    /\ vPc = "close"
    /\ IF ok
         THEN /\ bWindows' = bWindows \ {bActive}
              /\ bActive' = 0
              /\ vPc' = "switchToMain"
              /\ UNCHANGED <<cacheVars, vResult, vFailed, failedHandles>>
         ELSE /\ ValidationCatch
              /\ UNCHANGED <<bWindows, bActive>>
    /\ UNCHANGED <<hAction, vCaller, vUser, vDriver, vMainWindow, vWindows, vIsValid,
                   vCacheHit, vNavigated, vFirstQuery, vFailedBefore, vEntryWindows, vEntryActive,
                   queried, rawVars, navCount, validateFrame>>

\* await driver.switchTo().window(mainWindow);
\* validatedProfiles.set(username, Boolean(isValid)); return Boolean(isValid);
SwitchToMain(ok) ==
    /\ vPc = "switchToMain"
    /\ IF ok
         THEN /\ bActive' = vMainWindow
              /\ vPc' = "returned"
              /\ vResult' = vIsValid
              /\ IF vCaller = "flexible"
                   THEN /\ validatedFlexible' = MapSet(validatedFlexible, vUser, vIsValid)
                        /\ UNCHANGED validatedProfiles
                   ELSE /\ validatedProfiles' = MapSet(validatedProfiles, vUser, vIsValid)
                        /\ UNCHANGED validatedFlexible
              /\ UNCHANGED <<vFailed, failedHandles>>
         ELSE /\ ValidationCatch
              /\ UNCHANGED bActive
    /\ UNCHANGED <<hAction, bWindows, vCaller, vUser, vDriver, vMainWindow, vWindows,
                   vIsValid, vCacheHit, vNavigated, vFirstQuery, vFailedBefore, vEntryWindows,
                   vEntryActive, queried, rawVars, navCount, validateFrame>>

(***************************************************************************)
(* The callers of validateTwitterUsername                                  *)
(***************************************************************************)
\* driver = await setupWebDriver() / new Builder()...build(): a session with
\* one window.
CreateSession(action) ==
    /\ hAction = "none"
    /\ vPc \in {"idle", "returned"}
    /\ hAction' = action
    /\ bWindows' = {1}
    /\ bActive' = 1
    /\ vPc' = "idle"
    /\ UNCHANGED <<cacheVars, vCaller, vUser, vDriver, vMainWindow, vWindows, vIsValid,
                   vResult, vCacheHit, vNavigated, vFirstQuery, vFailed, vFailedBefore,
                   vEntryWindows, vEntryActive, queried, rawVars, failedHandles, navCount,
                   validateFrame>>

\* await driver.quit(): every window of the session is gone.
QuitSession ==
    /\ hAction # "none"
    /\ vPc \in {"idle", "returned"}
    /\ hAction' = "none"
    /\ bWindows' = {}
    /\ bActive' = 0
    /\ vPc' = "idle"
    /\ UNCHANGED <<cacheVars, vCaller, vUser, vDriver, vMainWindow, vWindows, vIsValid,
                   vResult, vCacheHit, vNavigated, vFirstQuery, vFailed, vFailedBefore,
                   vEntryWindows, vEntryActive, queried, rawVars, failedHandles, navCount,
                   validateFrame>>

\* The caller holds the username as the page spells it, and lower-cases it
\* for the call.
RecordRaw(raw) ==
    /\ vRaw' = raw
    /\ rawQueried' = rawQueried \cup {raw}

\* dataPatterns.twitter.config.transform(value, driver) up to its call of
\* validateTwitterUsername; extractDataByPattern calls transform(match), so
\* the driver parameter is undefined.
TwitterTransform(raw) ==
    /\ hAction = "flexible"
    /\ vPc \in {"idle", "returned"}
    /\ ValidateTwitterUsername("flexible", ToLowerCase(raw), FALSE)
    /\ RecordRaw(raw)
    /\ UNCHANGED validateFrame

\* extractProfilesFromCurrentPage, one iteration of the loop over
\* potentialUsernames for a username of the page: a cached username is
\* answered in place, any other goes to validateTwitterUsername(username, driver).
ValidateUsernameOfPage(raw) ==
    /\ hAction = "profiles"
    /\ vPc \in {"idle", "returned"}
    /\ IF MapHas(validatedProfiles, ToLowerCase(raw))
         THEN /\ ObserveQuery("profiles", ToLowerCase(raw), TRUE)
              /\ AnswerFromCache("profiles", ToLowerCase(raw))
         ELSE ValidateTwitterUsername("profiles", ToLowerCase(raw), TRUE)
    /\ RecordRaw(raw)
    /\ UNCHANGED validateFrame

(***************************************************************************)
(* Values of the program: primitives compare by value, objects and         *)
(* promises by identity (id), as the Set of extractDataByPattern does.     *)
(***************************************************************************)
Str(text) == [type |-> "string", v |-> text, id |-> 0]

Num(text) == [type |-> "number", v |-> text, id |-> 0]

Null == [type |-> "null", v |-> "null", id |-> 0]

Obj(content, id) == [type |-> "object", v |-> content, id |-> id]

\* A promise and the value it resolves to.
PromiseOf(resolution, id) == [type |-> "promise", v |-> resolution, id |-> id]

\* ToBoolean(value) = false.
Falsy(value) ==
    \/ value.type = "null"
    \/ value.type = "number" /\ value.v \in {"0", "NaN"}
    \/ value.type = "string" /\ value.v = ""

Range(seq) == {seq[i] : i \in 1..Len(seq)}

\* Set.prototype.add: SameValueZero on the value, insertion order kept.
SetAdd(set, value) == IF value \in Range(set) THEN set ELSE Append(set, value)

(***************************************************************************)
(* dataPatterns: the entries whose transform or validate differ in kind,   *)
(* and two patterns as determineDataTypes registers them from a generated  *)
(* specification (transform and validate built by new Function).           *)
(***************************************************************************)
DataPatterns ==
    [ email       |-> [transform |-> "none",       validate |-> "email"],
      prices      |-> [transform |-> "parseFloat", validate |-> "none"],
      restaurants |-> [transform |-> "restaurant", validate |-> "none"],
      twitter     |-> [transform |-> "twitter",    validate |-> "none"],
      generated   |-> [transform |-> "generated",  validate |-> "generated"],
      generated2  |-> [transform |-> "generated",  validate |-> "none"] ]

PatternKeys == DOMAIN DataPatterns

\* What text.match(regex) can hold for the regexes of each pattern.
MatchesOf(key) ==
    CASE key = "email"       -> {"a@b.com", "c@d.org"}
      [] key = "prices"      -> {"$0", "$5", "$5.00"}
      [] key = "restaurants" -> {"bistro", "diner"}
      [] key = "twitter"     -> {"x.com/Alice", "Alice", "x.com/alice", "alice"}
      [] OTHER               -> {"k1", "k2", "k3"}

\* value.split('/').pop()
SplitPop(match) ==
    CASE match \in {"x.com/Alice", "Alice"} -> "Alice"
      [] OTHER                                -> "alice"

\* prices: parseFloat(value.replace('$', ''))
ParseFloatPrice(match) ==
    CASE match = "$0"    -> Num("0")
      [] match = "$5"    -> Num("5")
      [] match = "$5.00" -> Num("5")
      [] OTHER           -> Num("NaN")

\* restaurants: a new object per call; the match is the matched word alone,
\* so none of the "name:", "cuisine:", ... lookups finds anything.
RestaurantObject(match, id) ==
    Obj("{name: undefined, cuisine: undefined, address: undefined, hours: undefined, phone: undefined, price: undefined}", id)

\* A transform built from generated source: maps k1 and k2, yields null for k3.
GeneratedTransform(match) ==
    CASE match = "k1" -> Str("K1")
      [] match = "k2" -> Str("K2")
      [] OTHER        -> Null

\* A validate built from generated source: accepts "K2" and the raw "k1".
GeneratedValidate(value) == value \in {Str("K2"), Str("k1")}

\* email: /^[\w\.-]+@[\w\.-]+\.\w+$/.test(email)
EmailValidate(value) == value \in {Str("a@b.com"), Str("c@d.org")}

\* pattern.config.validate(value)
ApplyValidate(key, value) ==
    CASE DataPatterns[key].validate = "email"     -> EmailValidate(value)
      [] DataPatterns[key].validate = "generated" -> GeneratedValidate(value)
      [] OTHER                                    -> TRUE

\* validateTwitterUsername(username, undefined), which runs to its return
\* without suspending: a cached answer, or driver.getWindowHandle throwing
\* on the undefined driver and the catch block storing false.
ValidateWithoutDriver(cache, username) ==
    IF MapHas(cache, username)
      THEN [result |-> MapGet(cache, username), cache |-> cache, failed |-> FALSE]
      ELSE [result |-> FALSE, cache |-> MapSet(cache, username, FALSE), failed |-> TRUE]

\* pattern.config.transform(match): the value returned, and the state it
\* leaves (the next object identity, the flexible action's cache, the
\* handles queried and failed).
ApplyTransform(key, match, acc) ==
    CASE DataPatterns[key].transform = "parseFloat" ->
           [acc EXCEPT !.value = ParseFloatPrice(match)]
      [] DataPatterns[key].transform = "restaurant" ->
           [acc EXCEPT !.value = RestaurantObject(match, acc.nextObject),
                       !.nextObject = @ + 1]
      [] DataPatterns[key].transform = "generated" ->
           [acc EXCEPT !.value = GeneratedTransform(match)]
      [] DataPatterns[key].transform = "twitter" ->
           LET username == ToLowerCase(SplitPop(match))
               checked == ValidateWithoutDriver(acc.cache, username)
           IN  [acc EXCEPT
                  !.value = PromiseOf(IF checked.result THEN username ELSE "null",
                                      acc.nextObject),
                  !.nextObject = @ + 1,
                  !.cache = checked.cache,
                  !.queried = @ \cup {username},
                  !.failed = IF checked.failed THEN @ \cup {username} ELSE @]
      [] OTHER -> [acc EXCEPT !.value = Str(match)]

LogEntry(fn, arg, ret, pass) == [fn |-> fn, arg |-> arg, ret |-> ret, pass |-> pass]

\* Faulty variant: validate is applied to the raw match, before transform.
ProcessMatchValidateFirst(key, match, acc) ==
    LET hasValidate == DataPatterns[key].validate # "none"
        hasTransform == DataPatterns[key].transform # "none"
        pass == ~hasValidate \/ ApplyValidate(key, Str(match))
        logged == IF hasValidate
                    THEN Append(acc.log, LogEntry("validate", Str(match), Null, pass))
                    ELSE acc.log
        after == IF hasTransform THEN ApplyTransform(key, match, acc)
                 ELSE [acc EXCEPT !.value = Str(match)]
    IN  [after EXCEPT
           !.log = IF hasTransform
                     THEN Append(logged, LogEntry("transform", Str(match), after.value, TRUE))
                     ELSE logged,
           !.results = IF pass THEN SetAdd(@, after.value) ELSE @]

\* The body of matches.forEach: value = match; transform if present;
\* validate if present; results.add(value).
ProcessMatch(key, match, acc) ==
    LET hasValidate == DataPatterns[key].validate # "none"
        hasTransform == DataPatterns[key].transform # "none"
        after == IF hasTransform THEN ApplyTransform(key, match, acc)
                 ELSE [acc EXCEPT !.value = Str(match)]
        pass == ~hasValidate \/ ApplyValidate(key, after.value)
        logged == IF hasTransform
                    THEN Append(acc.log, LogEntry("transform", Str(match), after.value, TRUE))
                    ELSE acc.log
    IN  [after EXCEPT
           !.log = IF hasValidate
                     THEN Append(logged, LogEntry("validate", after.value, Null, pass))
                     ELSE logged,
           !.results = IF pass THEN SetAdd(@, after.value) ELSE @]

\* matches.forEach(...) over the matches of one text, in order.
RECURSIVE ProcessMatches(_, _, _)
ProcessMatches(key, matches, acc) ==
    IF matches = <<>> THEN acc
    ELSE ProcessMatches(key, Tail(matches), ProcessMatch(key, Head(matches), acc))

\* The sequences text.match(regex) can return for a text of the page
\* (<<>> for null: no match). The regexes of email and prices are global:
\* every match of the text. The regex of restaurants is not global and has
\* no group: the first match alone. The regex of twitter is not global and
\* has one group: the first match and the handle captured in it. A generated
\* pattern's regexes are strings: the first match and its groups.
MatchLists(key) ==
    CASE key = "twitter" ->
           {<<>>, <<"x.com/Alice", "Alice">>, <<"x.com/alice", "alice">>}
      [] key = "restaurants" ->
           UNION {[1..n -> MatchesOf(key)] : n \in 0..1}
      [] OTHER ->
           UNION {[1..n -> MatchesOf(key)] : n \in 0..MaxMatches}

(***************************************************************************)
(* The registry dataPatterns and determineDataTypes                        *)
(***************************************************************************)
\* What a synthesized specification (the parsed JSON) can hold.
SynthSpecs ==
    [name : {"missing", "empty", "some"},
     patterns : {"missing", "empty", "some"},
     config : {"missing", "noSelectors", "emptySelectors", "selectors"}]

\* No specification: generateDataPattern returned null, or was not called.
NoSynth == [name |-> "none", patterns |-> "none", config |-> "none"]

\* The specification of an entry the source declares.
Declared == [name |-> "some", patterns |-> "some", config |-> "selectors"]

\* dataPatterns as the module declares it (lines 30-163), for the keys modelled.
DeclaredRegistry ==
    << [key |-> "email", spec |-> Declared], [key |-> "twitter", spec |-> Declared],
       [key |-> "prices", spec |-> Declared], [key |-> "restaurants", spec |-> Declared] >>

\* Keys whose regex carries the g flag: their test() starts at lastIndex.
GlobalKeys == {"email", "prices"}

\* Keys a synthesized pattern can be registered under.
SynthKeys == {"generated", "generated2", "Email"}

RegistryKeys(reg) == {reg[i].key : i \in 1..Len(reg)}

\* text.match(regex) of a global regex leaves its lastIndex at 0.
ResetLastIndex(key) ==
    IF key \in DOMAIN lastIndex THEN [lastIndex EXCEPT ![key] = 0] ELSE lastIndex

\* Request texts, already lower-cased as line 521 does.
Texts ==
    {"find email addresses", "get a@b.com", "get a@b.com or c@d.org", "show $5",
     "find restaurants", "get generated", "what is there"}

\* text.includes(key)
IncludesKey(text, key) ==
    \/ key = "email" /\ text \in {"find email addresses", "email and $5"}
    \/ key = "restaurants" /\ text = "find restaurants"
    \/ key = "generated" /\ text = "get generated"

\* text.includes(pattern.name.toLowerCase()): "email addresses", "twitter
\* profiles", "prices", "restaurants"; a synthesized name is in no text.
IncludesName(text, key) ==
    \/ key = "email" /\ text = "find email addresses"
    \/ key = "restaurants" /\ text = "find restaurants"

\* The matches of the key's regex in the text, as <<start, end>> offsets.
Hits(text, key) ==
    CASE key = "email" /\ text = "get a@b.com" -> << <<4, 11>> >>
      [] key = "email" /\ text = "get a@b.com or c@d.org" -> << <<4, 11>>, <<15, 22>> >>
      [] key = "prices" /\ text = "show $5" -> << <<5, 7>> >>
      [] key = "prices" /\ text = "email and $5" -> << <<10, 12>> >>
      [] key = "restaurants" /\ text = "find restaurants" -> << <<5, 15>> >>
      [] OTHER -> << >>

\* pattern.patterns.some(p => p.test(text)) for a declared pattern: a global
\* regex searches from its lastIndex and leaves it after the match found, or
\* at 0 when none is found; another regex searches from 0 and keeps none.
RegexTest(text, key, li) ==
    LET hits == Hits(text, key)
        from == IF key \in GlobalKeys THEN li[key] ELSE 0
        found == {i \in 1..Len(hits) : hits[i][1] >= from}
        first == CHOOSE i \in found : \A j \in found : i <= j
    IN  IF key \in GlobalKeys
          THEN IF found # {}
                 THEN [result |-> TRUE, li |-> [li EXCEPT ![key] = hits[first][2]]]
                 ELSE [result |-> FALSE, li |-> [li EXCEPT ![key] = 0]]
          ELSE [result |-> hits # << >>, li |-> li]

\* The loop of lines 523-529 from entry i on. acc holds types, the lastIndex
\* values and whether a failure was raised: the patterns of a synthesized
\* entry are the strings of the parsed JSON, and p.test of a string is not
\* a function.
RECURSIVE MatchRegistry(_, _, _, _)
MatchRegistry(text, reg, i, acc) ==
    IF i > Len(reg) \/ acc.failed THEN acc
    ELSE LET key == reg[i].key
             spec == reg[i].spec
         IN  IF IncludesKey(text, key) \/ IncludesName(text, key)
               THEN MatchRegistry(text, reg, i + 1,
                                  [acc EXCEPT !.types = Append(@, key)])
             ELSE IF key \in SynthKeys
               THEN IF spec.patterns = "empty"
                      THEN MatchRegistry(text, reg, i + 1, acc)
                      ELSE [acc EXCEPT !.failed = TRUE]
             ELSE LET t == RegexTest(text, key, acc.li)
                  IN  MatchRegistry(text, reg, i + 1,
                        [acc EXCEPT !.li = t.li,
                                    !.types = IF t.result THEN Append(@, key) ELSE @])

\* validateAndTransformPattern: null unless name, patterns and config are truthy.
ValidateAndTransformPattern(spec) ==
    /\ spec.name = "some"
    /\ spec.patterns # "missing"
    /\ spec.config # "missing"

\* What the classifier can answer at line 536: a new word, a key of the
\* registry, or no string at all.
ClassifierAnswers == {"generated", "email", "notString"}

\* The classifier's word is used as it comes: it can carry a capital letter.
CapitalisedAnswers == {"Email"}

\* What generateDataPattern can come to: a parsed specification, or none
\* when generateText or JSON.parse failed (caught at line 513).
SynthOutcomes == SynthSpecs \cup {NoSynth}

\* determineDataTypes(runtime, text), run to its end. classifierFails: the
\* generateText call of line 536 raises. The result holds the list returned,
\* the registry and the lastIndex values it leaves, whether it raised, the
\* specification that was synthesized and the classifier's answer.
DetermineDataTypes(text, answer, synth, classifierFails) ==
    LET matched == MatchRegistry(text, registry, 1,
                                 [types |-> <<>>, li |-> lastIndex, failed |-> FALSE])
        base == [types |-> matched.types, registry |-> registry, li |-> matched.li,
                 failed |-> matched.failed, synth |-> NoSynth, answer |-> "none"]
    IN  IF matched.failed \/ matched.types # <<>> THEN base
        ELSE IF classifierFails THEN [base EXCEPT !.failed = TRUE]
        ELSE IF answer = "notString" \/ answer \in RegistryKeys(registry)
          THEN [base EXCEPT !.answer = answer]
        ELSE IF synth # NoSynth /\ ValidateAndTransformPattern(synth)
          THEN [base EXCEPT !.types = <<answer>>,
                            !.registry = Append(registry, [key |-> answer, spec |-> synth]),
                            !.synth = synth, !.answer = answer]
        ELSE [base EXCEPT !.synth = synth, !.answer = answer]

\* One call of determineDataTypes, with any text and any answers of the
\* classifier.
DetermineDataTypesCall(text, answer, synth, classifierFails) ==
    /\ hPc = "idle"
    /\ LET out == DetermineDataTypes(text, answer, synth, classifierFails)
       IN  /\ dText' = text
           /\ dTypes' = (IF out.failed THEN <<>> ELSE out.types)
           /\ dFailed' = out.failed
           /\ dSynth' = out.synth
           /\ dAnswer' = out.answer
           /\ registry' = out.registry
           /\ lastIndex' = out.li
    /\ UNCHANGED <<retryVars, sessionVars, cacheVars, validateVars, extractVars,
                   pageVars, crawlVars, handlerVars, profilePageVars, scenarioVars>>

\* No call of determineDataTypes yet; the registry as declared.
DetermineIdle ==
    /\ dText = "none"
    /\ dTypes = <<>>
    /\ dFailed = FALSE
    /\ dSynth = NoSynth
    /\ dAnswer = "none"

RegistryDeclared ==
    /\ registry = DeclaredRegistry
    /\ lastIndex = [key \in GlobalKeys |-> 0]

(***************************************************************************)
(* extractDataByPattern                                                    *)
(***************************************************************************)
ExtractIdle ==
    /\ ePc = "idle"
    /\ ePattern = "none"
    /\ eResults = <<>>
    /\ eSelector = 0
    /\ eElements = 0
    /\ eLog = <<>>
    /\ eSkipped = {}
    /\ nextObject = 1

\* The frame of a returned extractDataByPattern is dropped.
ExtractLeave ==
    /\ ePc' = "idle"
    /\ ePattern' = "none"
    /\ eResults' = <<>>
    /\ eSelector' = 0
    /\ eElements' = 0
    /\ eLog' = <<>>
    /\ eSkipped' = {}

\* Entry: const results = new Set(); then the wait for body.
ExtractEnter(key) ==
    /\ ePc' = "waitBody"
    /\ ePattern' = key
    /\ eResults' = <<>>
    /\ eSelector' = 0
    /\ eElements' = 0
    /\ eLog' = <<>>
    /\ eSkipped' = {}

\* for (const selector of pattern.config.selectors): the next selector's
\* retryOperation(findElements, 3, 1000, driver), or the end of the loop.
NextSelector(selector) ==
    /\ eSelector' = selector
    /\ IF selector <= NumSelectors
         THEN ePc' = "findElements" /\ RetryEnter(3, TRUE)
         ELSE ePc' = "done" /\ RetryLeave

\* for (const element of elements): the next element's
\* retryOperation(getText or getAttribute) with the default 3, 1000 and no
\* driver, or the next selector.
NextElement(remaining) ==
    /\ eElements' = remaining
    /\ IF remaining > 0
         THEN ePc' = "getText" /\ RetryEnter(3, FALSE) /\ UNCHANGED eSelector
         ELSE NextSelector(eSelector + 1)

\* await driver.wait(until.elementLocated(By.css('body')), 10000): inside the
\* outer try, so a failure ends the extraction with what results holds.
WaitForBody(ok) ==
    /\ ePc = "waitBody"
    /\ rPc = "idle"
    /\ IF ok
         THEN NextSelector(1)
         ELSE ePc' = "done" /\ UNCHANGED <<eSelector, retryVars>>
    /\ UNCHANGED <<ePattern, eResults, eElements, eLog, eSkipped, nextObject, sessionVars,
                   cacheVars, validateVars, extractFrame, registryVars>>

\* retryOperation returned the elements of the selector.
ElementsFound(count) ==
    /\ ePc = "findElements"
    /\ rPc = "returned"
    /\ NextElement(count)
    /\ UNCHANGED <<ePattern, eResults, eLog, eSkipped, nextObject, sessionVars, cacheVars,
                   validateVars, extractFrame, registryVars>>

\* Faulty variant: a failed element lookup ends the extraction, as a failed
\* wait for body does.
SelectorFailsEndsExtraction ==
    /\ ePc = "findElements"
    /\ rPc = "thrown"
    /\ ePc' = "done"
    /\ RetryLeave
    /\ eSkipped' = eSkipped \cup {eSelector}
    /\ UNCHANGED <<ePattern, eResults, eSelector, eElements, eLog, nextObject,
                   sessionVars, cacheVars, validateVars, extractFrame, registryVars>>

\* retryOperation raised: catch (error) { continue; } skips the selector.
SelectorFails ==
    /\ ePc = "findElements"
    /\ rPc = "thrown"
    /\ NextSelector(eSelector + 1)
    /\ eSkipped' = eSkipped \cup {eSelector}
    /\ UNCHANGED <<ePattern, eResults, eElements, eLog, nextObject, sessionVars,
                   cacheVars, validateVars, extractFrame, registryVars>>

\* retryOperation returned the element's text: if (text), every regex is
\* matched and matches.forEach runs to its end without suspending.
TextRead(matches) ==
    /\ ePc = "getText"
    /\ rPc = "returned"
    /\ LET acc == ProcessMatches(ePattern, matches,
                    [results |-> eResults, log |-> <<>>, value |-> Null,
                     nextObject |-> nextObject, cache |-> validatedFlexible,
                     queried |-> queried, failed |-> failedHandles])
       IN  /\ eResults' = acc.results
           /\ eLog' = acc.log
           /\ eSkipped' = eSkipped
           /\ nextObject' = acc.nextObject
           /\ validatedFlexible' = acc.cache
           /\ queried' = acc.queried
           /\ failedHandles' = acc.failed
    /\ NextElement(eElements - 1)
    /\ \E called \in BOOLEAN :
         /\ matches # <<>> => called
         /\ lastIndex' = (IF called THEN ResetLastIndex(ePattern) ELSE lastIndex)
    /\ UNCHANGED <<ePattern, sessionVars, validatedProfiles, vPc, vCaller, vUser,
                   vDriver, vMainWindow, vWindows, vIsValid, vResult, vCacheHit,
                   vNavigated, vFirstQuery, vFailed, vFailedBefore, vEntryWindows,
                   vEntryActive, navCount, rawVars, extractFrame, registry>>

\* retryOperation raised: catch (error) { continue; } skips the element.
ElementFails ==
    /\ ePc = "getText"
    /\ rPc = "thrown"
    /\ NextElement(eElements - 1)
    /\ UNCHANGED <<ePattern, eResults, eLog, eSkipped, nextObject, sessionVars, cacheVars,
                   validateVars, extractFrame, registryVars>>

(***************************************************************************)
(* crawlAndExtract                                                         *)
(***************************************************************************)
\* while (urlsToVisit.length > 0 && visitedUrls.size < 10)
MAX_PAGES == 10

\* URLs a document of the site can have.
Urls == {"https://a.example/", "https://a.example/about"}

\* No document is loaded.
PageIdle ==
    /\ bUrl = "about:blank"
    /\ bDom = 0

CrawlIdle ==
    /\ cPc = "idle"
    /\ cBaseUrl = "none"
    /\ cPattern = "none"
    /\ cResults = <<>>
    /\ visitedUrls = {}
    /\ urlsToVisit = <<>>
    /\ cCurrentUrl = "none"
    /\ cElements = 0
    /\ cBeforeState = 0
    /\ cAfterState = -1
    /\ cNavigated = <<>>
    /\ cCaught = {}
    /\ cDisplayed = "none"

\* results.forEach / pageResults.forEach(result => results.add(result))
RECURSIVE SetAddAll(_, _)
SetAddAll(set, values) ==
    IF values = <<>> THEN set
    ELSE SetAddAll(SetAdd(set, Head(values)), Tail(values))

\* The while test, and const currentUrl = urlsToVisit.shift() when it holds;
\* return Array.from(results) when it does not.
CrawlLoop ==
    IF Len(urlsToVisit) > 0 /\ Cardinality(visitedUrls) < MAX_PAGES
      THEN /\ cPc' = "get"
           /\ cCurrentUrl' = Head(urlsToVisit)
           /\ urlsToVisit' = Tail(urlsToVisit)
      ELSE /\ cPc' = "done"
           /\ UNCHANGED <<cCurrentUrl, urlsToVisit>>

\* Faulty variant: the crawl starts from the page the browser shows.
CrawlEnterAtCurrentPage(baseUrl, key) ==
    /\ cBaseUrl' = baseUrl
    /\ cPattern' = key
    /\ cResults' = <<>>
    /\ visitedUrls' = {bUrl}
    /\ cPc' = "get"
    /\ cCurrentUrl' = bUrl
    /\ urlsToVisit' = <<>>
    /\ cElements' = 0
    /\ cBeforeState' = 0
    /\ cAfterState' = -1
    /\ cNavigated' = <<>>
    /\ cCaught' = {}
    /\ cDisplayed' = "none"

\* Entry: results = new Set(), visitedUrls = new Set([baseUrl]),
\* urlsToVisit = [baseUrl], then the first while test and shift.
CrawlEnter(baseUrl, key) ==
    /\ cBaseUrl' = baseUrl
    /\ cPattern' = key
    /\ cResults' = <<>>
    /\ visitedUrls' = {baseUrl}
    /\ cPc' = "get"
    /\ cCurrentUrl' = baseUrl
    /\ urlsToVisit' = <<>>
    /\ cElements' = 0
    /\ cBeforeState' = 0
    /\ cAfterState' = -1
    /\ cNavigated' = <<>>
    /\ cCaught' = {}
    /\ cDisplayed' = "none"

\* const results = await crawlAndExtract(driver, url, pattern), called once.
CrawlAndExtract(baseUrl, key) ==
    /\ cPc = "idle"
    /\ CrawlEnter(baseUrl, key)
    /\ UNCHANGED <<pageVars, retryVars, sessionVars, cacheVars, validateVars, handlerVars, profilePageVars,
                   registryVars, determineVars, scenarioVars,
                   extractVars>>

\* for (const element of interactiveElements): the next element's
\* retryOperation(wait visible; isDisplayed, 3), or the end of the loop body
\* of the while loop.
NextInteractive(remaining) ==
    /\ cElements' = remaining
    /\ IF remaining > 0
         THEN /\ cPc' = "visible"
              /\ RetryEnter(3, FALSE)
              /\ UNCHANGED <<cCurrentUrl, urlsToVisit>>
         ELSE /\ CrawlLoop
              /\ RetryLeave

\* Faulty variant: a failure of driver.get leaves crawlAndExtract as a
\* failure raised to its caller.
DriverGetPropagates(ok) ==
    /\ cPc = "get"
    /\ cCaught' = cCaught
    /\ cNavigated' = Append(cNavigated, cCurrentUrl)
    /\ IF ok
         THEN /\ cPc' = "waitBody"
              /\ bUrl' = cCurrentUrl
              /\ bDom' = 0
         ELSE /\ cPc' = "thrown"
              /\ UNCHANGED pageVars
    /\ UNCHANGED <<cCurrentUrl, urlsToVisit, cBaseUrl, cPattern, cDisplayed, cResults, visitedUrls,
                   cElements, cBeforeState, cAfterState, retryVars, sessionVars,
                   cacheVars, validateVars, handlerVars, profilePageVars,
                   registryVars, determineVars, scenarioVars, extractVars>>

\* await driver.get(currentUrl); a failure goes to the URL's catch: continue.
DriverGet(ok) ==
    /\ cPc = "get"
    /\ cCaught' = (IF ok THEN cCaught ELSE cCaught \cup {cCurrentUrl})
    /\ cNavigated' = Append(cNavigated, cCurrentUrl)
    /\ IF ok
         THEN /\ cPc' = "waitBody"
              /\ bUrl' = cCurrentUrl
              /\ bDom' = 0
              /\ UNCHANGED <<cCurrentUrl, urlsToVisit>>
         ELSE /\ CrawlLoop
              /\ UNCHANGED pageVars
    /\ UNCHANGED <<cBaseUrl, cPattern, cDisplayed, cResults, visitedUrls, cElements, cBeforeState, cAfterState,
                   retryVars, sessionVars, cacheVars, validateVars, handlerVars, profilePageVars,
                   registryVars, determineVars, scenarioVars, extractVars>>

\* await driver.wait(until.elementLocated(By.tagName('body')), 10000);
CrawlWaitForBody(ok) ==
    /\ cPc = "waitBody"
    /\ cCaught' = (IF ok THEN cCaught ELSE cCaught \cup {cCurrentUrl})
    /\ IF ok
         THEN cPc' = "settle" /\ UNCHANGED <<cCurrentUrl, urlsToVisit>>
         ELSE CrawlLoop
    /\ UNCHANGED <<cBaseUrl, cPattern, cDisplayed, cResults, visitedUrls, cElements, cBeforeState, cAfterState,
                   cNavigated, pageVars, retryVars, sessionVars, cacheVars,
                   validateVars, handlerVars, profilePageVars,
                   registryVars, determineVars, scenarioVars, extractVars>>

\* await driver.sleep(2000); then retryOperation(() => extractDataByPattern(
\* driver, pattern), 3, 1000, driver): extractDataByPattern catches every
\* failure, so the first iteration of retryOperation returns its list.
CrawlSettle ==
    /\ cPc = "settle"
    /\ cPc' = "pageExtract"
    /\ ExtractEnter(cPattern)
    /\ UNCHANGED <<cBaseUrl, cPattern, cDisplayed, cResults, visitedUrls, urlsToVisit, cCurrentUrl,
                   cElements, cBeforeState, cAfterState, cNavigated, cCaught, nextObject, pageVars,
                   retryVars, sessionVars, cacheVars, validateVars, handlerVars, profilePageVars,
                   registryVars, determineVars, scenarioVars>>

\* pageResults.forEach(result => results.add(result)); the next call is
\* driver.findElements(By.css('nav a, .nav-link, button:not([disabled]), [role="button"]')).
PageExtracted ==
    /\ cPc = "pageExtract"
    /\ ePc = "done"
    /\ cResults' = SetAddAll(cResults, eResults)
    /\ cPc' = "findInteractive"
    /\ ExtractLeave
    /\ UNCHANGED <<cBaseUrl, cPattern, cDisplayed, visitedUrls, urlsToVisit, cCurrentUrl, cElements,
                   cBeforeState, cAfterState, cNavigated, cCaught, nextObject, pageVars, retryVars,
                   sessionVars, cacheVars, validateVars, handlerVars, profilePageVars,
                   registryVars, determineVars, scenarioVars>>

\* const interactiveElements = await driver.findElements(...); a failure
\* goes to the URL's catch.
FindInteractive(ok, count) ==
    /\ cPc = "findInteractive"
    /\ cCaught' = (IF ok THEN cCaught ELSE cCaught \cup {cCurrentUrl})
    /\ IF ok
         THEN NextInteractive(count)
         ELSE /\ CrawlLoop
              /\ UNCHANGED <<cElements, retryVars>>
    /\ UNCHANGED <<cBaseUrl, cPattern, cDisplayed, cResults, visitedUrls, cBeforeState, cAfterState, cNavigated,
                   pageVars, sessionVars, cacheVars, validateVars, handlerVars, profilePageVars,
                   registryVars, determineVars, scenarioVars, extractVars>>

\* Faulty variant: the element is processed whatever the visibility check
\* returned.
VisibilityCheckedIgnoresResult(isDisplayed) ==
    /\ cPc = "visible"
    /\ rPc = "returned"
    /\ cDisplayed' = (IF isDisplayed THEN "true" ELSE "false")
    /\ cPc' = "beforeState"
    /\ RetryLeave
    /\ UNCHANGED <<cElements, cCurrentUrl, urlsToVisit>>
    /\ UNCHANGED <<cBaseUrl, cPattern, cResults, visitedUrls, cBeforeState, cAfterState, cNavigated, cCaught,
                   pageVars, sessionVars, cacheVars, validateVars, handlerVars, profilePageVars,
                   registryVars, determineVars, scenarioVars, extractVars>>

\* retryOperation returned isDisplayed: if (!isDisplayed) continue; else the
\* DOM snapshot is the next call.
VisibilityChecked(isDisplayed) ==
    /\ cPc = "visible"
    /\ rPc = "returned"
    /\ cDisplayed' = (IF isDisplayed THEN "true" ELSE "false")
    /\ IF isDisplayed
         THEN /\ cPc' = "beforeState"
              /\ RetryLeave
              /\ UNCHANGED <<cElements, cCurrentUrl, urlsToVisit>>
         ELSE NextInteractive(cElements - 1)
    /\ UNCHANGED <<cBaseUrl, cPattern, cResults, visitedUrls, cBeforeState, cAfterState, cNavigated, cCaught,
                   pageVars, sessionVars, cacheVars, validateVars, handlerVars, profilePageVars,
                   registryVars, determineVars, scenarioVars, extractVars>>

\* Faulty variant: an element whose operation raised is taken up again.
InteractionFailsRetriesElement ==
    /\ cPc \in {"visible", "click"}
    /\ rPc = "thrown"
    /\ NextInteractive(cElements)
    /\ UNCHANGED <<cBaseUrl, cPattern, cDisplayed, cResults, visitedUrls, cBeforeState, cAfterState, cNavigated, cCaught,
                   pageVars, sessionVars, cacheVars, validateVars, handlerVars, profilePageVars,
                   registryVars, determineVars, scenarioVars, extractVars>>

\* retryOperation raised inside the element's try: catch, continue.
InteractionFails ==
    /\ cPc \in {"visible", "click"}
    /\ rPc = "thrown"
    /\ NextInteractive(cElements - 1)
    /\ UNCHANGED <<cBaseUrl, cPattern, cDisplayed, cResults, visitedUrls, cBeforeState, cAfterState, cNavigated, cCaught,
                   pageVars, sessionVars, cacheVars, validateVars, handlerVars, profilePageVars,
                   registryVars, determineVars, scenarioVars, extractVars>>

\* const beforeState = await driver.executeScript('return
\* document.documentElement.outerHTML'); then retryOperation(scrollIntoView;
\* wait visible; click, 3).
SnapshotBefore(ok) ==
    /\ cPc = "beforeState"
    /\ cAfterState' = -1
    /\ IF ok
         THEN /\ cBeforeState' = bDom
              /\ cPc' = "click"
              /\ RetryEnter(3, FALSE)
              /\ UNCHANGED <<cElements, cCurrentUrl, urlsToVisit>>
         ELSE /\ NextInteractive(cElements - 1)
              /\ UNCHANGED cBeforeState
    /\ UNCHANGED <<cBaseUrl, cPattern, cDisplayed, cResults, visitedUrls, cNavigated, cCaught, pageVars,
                   sessionVars, cacheVars, validateVars, handlerVars, profilePageVars,
                   registryVars, determineVars, scenarioVars, extractVars>>

\* retryOperation returned: element.click() was carried out. The click does
\* nothing to the page, reveals content of the same document, or loads the
\* document of another URL.
Clicked(effect, url) ==
    /\ cPc = "click"
    /\ rPc = "returned"
    /\ effect = "navigate" => url # bUrl
    /\ effect # "navigate" => url = bUrl
    /\ bUrl' = url
    /\ bDom' = (IF effect = "none" THEN bDom ELSE bDom + 1)
    /\ cPc' = "clickSettle"
    /\ RetryLeave
    /\ UNCHANGED <<cBaseUrl, cPattern, cDisplayed, cResults, visitedUrls, urlsToVisit, cCurrentUrl,
                   cElements, cBeforeState, cAfterState, cNavigated, cCaught, sessionVars, cacheVars,
                   validateVars, handlerVars, profilePageVars,
                   registryVars, determineVars, scenarioVars, extractVars>>

\* await driver.sleep(1000);
ClickSettle ==
    /\ cPc = "clickSettle"
    /\ cPc' = "afterState"
    /\ UNCHANGED <<cBaseUrl, cPattern, cDisplayed, cResults, visitedUrls, urlsToVisit, cCurrentUrl,
                   cElements, cBeforeState, cAfterState, cNavigated, cCaught, pageVars, retryVars,
                   sessionVars, cacheVars, validateVars, handlerVars, profilePageVars,
                   registryVars, determineVars, scenarioVars, extractVars>>

\* Faulty variant: the extraction is run again after every click whose
\* snapshot was obtained, whether or not the DOM changed.
SnapshotAfterAlwaysExtracts(ok) ==
    /\ cPc = "afterState"
    /\ cAfterState' = (IF ok THEN bDom ELSE -1)
    /\ IF ok
         THEN /\ cPc' = "clickExtract"
              /\ ExtractEnter(cPattern)
              /\ UNCHANGED <<cElements, cCurrentUrl, urlsToVisit, retryVars>>
         ELSE /\ NextInteractive(cElements - 1)
              /\ UNCHANGED <<ePc, ePattern, eResults, eSelector, eElements, eLog,
                             eSkipped>>
    /\ UNCHANGED <<cBaseUrl, cPattern, cDisplayed, cResults, visitedUrls, cBeforeState, cNavigated, cCaught,
                   nextObject, pageVars, sessionVars, cacheVars, validateVars, handlerVars, profilePageVars,
                   registryVars, determineVars, scenarioVars>>

\* const afterState = await driver.executeScript(...);
\* if (beforeState !== afterState) extractDataByPattern(driver, pattern).
SnapshotAfter(ok) ==
    /\ cPc = "afterState"
    /\ cAfterState' = (IF ok THEN bDom ELSE -1)
    /\ IF ok /\ cBeforeState # bDom
         THEN /\ cPc' = "clickExtract"
              /\ ExtractEnter(cPattern)
              /\ UNCHANGED <<cElements, cCurrentUrl, urlsToVisit, retryVars>>
         ELSE /\ NextInteractive(cElements - 1)
              /\ UNCHANGED <<ePc, ePattern, eResults, eSelector, eElements, eLog,
                             eSkipped>>
    /\ UNCHANGED <<cBaseUrl, cPattern, cDisplayed, cResults, visitedUrls, cBeforeState, cNavigated, cCaught,
                   nextObject, pageVars, sessionVars, cacheVars, validateVars, handlerVars, profilePageVars,
                   registryVars, determineVars, scenarioVars>>

\* newResults.forEach(result => results.add(result)); then the next element.
ClickExtracted ==
    /\ cPc = "clickExtract"
    /\ ePc = "done"
    /\ cResults' = SetAddAll(cResults, eResults)
    /\ ExtractLeave
    /\ NextInteractive(cElements - 1)
    /\ UNCHANGED <<cBaseUrl, cPattern, cDisplayed, visitedUrls, cBeforeState, cAfterState, cNavigated, cCaught,
                   nextObject, pageVars, sessionVars, cacheVars, validateVars, handlerVars, profilePageVars,
                   registryVars, determineVars, scenarioVars>>

(***************************************************************************)
(* The handlers of seleniumflexibleAction and seleniumProfilesAction:      *)
(* one invocation, each await a step. callback is supplied by the caller   *)
(* and returns.                                                            *)
(***************************************************************************)
\* What a step of a handler's own code leaves alone of the functions it calls.
calleeFrame == <<retryVars, cacheVars, validateVars, extractVars, registryVars,
                 determineVars, scenarioVars>>

\* Locals of the element loop of the profiles handler.
loopVars == <<hIndex, hCount, hCurrentUrl, hProfiles>>

\* What the handler has reported so far.
outcomeVars == <<hCallbacks, hReturn, hFailure>>

\* The argument of callback: content.error of a failure message.
ErrorMessage(error) == [kind |-> "error", error |-> error]

SuccessMessage == [kind |-> "success", error |-> "none"]

UnclearRequest == "Unclear data type request"

NoUrlFlexible == "No website URL provided or configured"

NoUrlProfiles == "WEBSITE_URL not configured in .env"

\* What extractUrlFromMessage and getSetting("WEBSITE_URL") can return.
SeedUrls == {"none", "https://a.example/"}

\* Request texts given to the flexible handler, lower-cased: for one key, for
\* none, for two.
HandlerTexts == {"show $5", "what is there", "email and $5"}

\* catch (error) of either handler: the failure message, return false, and
\* the finally block, which has a call to make only when driver is set.
HandlerCatch(error) ==
    /\ hFailure' = error
    /\ hCallbacks' = Append(hCallbacks, ErrorMessage(error))
    /\ hReturn' = "false"
    /\ hPc' = IF hDriver THEN "finally" ELSE "returned"

\* driver.quit() of the finally block; its failure goes to console.error.
FinallyQuit(ok) ==
    /\ hPc = "finally"
    /\ hQuits' = hQuits + 1
    /\ bWindows' = (IF ok THEN {} ELSE bWindows)
    /\ bActive' = (IF ok THEN 0 ELSE bActive)
    /\ hPc' = "returned"
    /\ UNCHANGED <<hAction, pageVars, hDriver, hSessions, hUrl, hTypes, hResults,
                   hRace, loopVars, hRequest, outcomeVars, crawlVars, profilePageVars,
                   calleeFrame>>

\* A session with one window, as Builder.build() returns it.
NewSession ==
    /\ hDriver' = TRUE
    /\ hSessions' = hSessions + 1
    /\ bWindows' = {1}
    /\ bActive' = 1

\* The crawl's locals are dropped when the call has returned.
CrawlLeave ==
    /\ cPc' = "idle"
    /\ cBaseUrl' = "none"
    /\ cPattern' = "none"
    /\ cResults' = <<>>
    /\ visitedUrls' = {}
    /\ urlsToVisit' = <<>>
    /\ cCurrentUrl' = "none"
    /\ cElements' = 0
    /\ cBeforeState' = 0
    /\ cAfterState' = -1
    /\ cNavigated' = <<>>
    /\ cCaught' = {}
    /\ cDisplayed' = "none"

\* ---- seleniumflexibleAction.handler ----
\* The for loop over dataTypes from the keys still to crawl: the call of
\* crawlAndExtract for the next key, or the success message and return true.
FlexibleLoop(types) ==
    IF types # <<>>
      THEN /\ CrawlEnter(hUrl, Head(types))
           /\ hPc' = "crawl"
           /\ UNCHANGED outcomeVars
      ELSE /\ CrawlLeave
           /\ hCallbacks' = Append(hCallbacks, SuccessMessage)
           /\ hReturn' = "true"
           /\ hPc' = "finally"
           /\ UNCHANGED hFailure

\* Entry of the flexible handler up to setupWebDriver(): determineDataTypes,
\* the test of dataTypes.length, and the seed URL.
SeleniumFlexibleHandler(text, textUrl, setting, answer, synth, classifierFails) ==
    /\ hPc = "idle"
    /\ hAction = "none"
    /\ hAction' = "flexible"
    /\ hRequest' = [url |-> textUrl, setting |-> setting]
    /\ LET out == DetermineDataTypes(text, answer, synth, classifierFails)
           websiteUrl == IF textUrl # "none" THEN textUrl ELSE setting
       IN  /\ dText' = text
           /\ dTypes' = (IF out.failed THEN <<>> ELSE out.types)
           /\ dFailed' = out.failed
           /\ dSynth' = out.synth
           /\ dAnswer' = out.answer
           /\ registry' = out.registry
           /\ lastIndex' = out.li
           /\ IF out.failed
                THEN /\ HandlerCatch("determineDataTypes")
                     /\ UNCHANGED <<hUrl, hTypes>>
              ELSE IF out.types = <<>>
                THEN /\ hCallbacks' = Append(hCallbacks, ErrorMessage(UnclearRequest))
                     /\ hReturn' = "false"
                     /\ hPc' = "returned"
                     /\ UNCHANGED <<hFailure, hUrl, hTypes>>
              ELSE IF websiteUrl = "none"
                THEN /\ HandlerCatch(NoUrlFlexible)
                     /\ UNCHANGED <<hUrl, hTypes>>
              ELSE /\ hUrl' = websiteUrl
                   /\ hTypes' = out.types
                   /\ hPc' = "setupWebDriver"
                   /\ UNCHANGED outcomeVars
    /\ UNCHANGED <<bWindows, bActive, pageVars, hDriver, hQuits, hSessions, hResults,
                   hRace, loopVars, crawlVars, profilePageVars, retryVars, cacheVars,
                   validateVars, extractVars, scenarioVars>>

\* driver = await setupWebDriver();
SetupWebDriver(ok) ==
    /\ hPc = "setupWebDriver"
    /\ IF ok
         THEN /\ NewSession
              /\ hPc' = "get"
              /\ UNCHANGED outcomeVars
         ELSE /\ HandlerCatch("SessionNotCreatedError")
              /\ UNCHANGED <<hDriver, hSessions, bWindows, bActive>>
    /\ UNCHANGED <<hAction, pageVars, hQuits, hUrl, hTypes, hResults, hRace, loopVars,
                   hRequest, crawlVars, profilePageVars, calleeFrame>>

\* Faulty variant: the failure of the seed navigation meets no catch block
\* and leaves through finally.
FlexibleGetPropagates(ok) ==
    /\ hPc = "get"
    /\ hAction = "flexible"
    /\ IF ok
         THEN /\ bUrl' = hUrl
              /\ bDom' = 0
              /\ FlexibleLoop(hTypes)
         ELSE /\ hFailure' = "WebDriverError"
              /\ hPc' = "finally"
              /\ UNCHANGED <<hCallbacks, hReturn, pageVars, crawlVars>>
    /\ UNCHANGED <<sessionVars, hDriver, hQuits, hSessions, hUrl, hTypes, hResults,
                   hRace, loopVars, hRequest, profilePageVars, calleeFrame>>

\* await driver.get(websiteUrl); then the first iteration of the for loop.
FlexibleGet(ok) ==
    /\ hPc = "get"
    /\ hAction = "flexible"
    /\ IF ok
         THEN /\ bUrl' = hUrl
              /\ bDom' = 0
              /\ FlexibleLoop(hTypes)
         ELSE /\ HandlerCatch("WebDriverError")
              /\ UNCHANGED <<pageVars, crawlVars>>
    /\ UNCHANGED <<sessionVars, hDriver, hQuits, hSessions, hUrl, hTypes, hResults,
                   hRace, loopVars, hRequest, profilePageVars, calleeFrame>>

\* Faulty variant: a key whose crawl found nothing gets no entry.
CrawlReturnedDropsEmpty ==
    /\ hPc = "crawl"
    /\ cPc = "done"
    /\ hResults' = (IF cResults = <<>> THEN hResults
                    ELSE Append(hResults, [key |-> Head(hTypes), values |-> cResults]))
    /\ hTypes' = Tail(hTypes)
    /\ FlexibleLoop(Tail(hTypes))
    /\ UNCHANGED <<sessionVars, pageVars, hDriver, hQuits, hSessions, hUrl, hRace,
                   loopVars, hRequest, profilePageVars, calleeFrame>>

\* results[dataType] = await crawlAndExtract(...) has returned: the next
\* iteration of the for loop.
CrawlReturned ==
    /\ hPc = "crawl"
    /\ cPc = "done"
    /\ hResults' = Append(hResults, [key |-> Head(hTypes), values |-> cResults])
    /\ hTypes' = Tail(hTypes)
    /\ FlexibleLoop(Tail(hTypes))
    /\ UNCHANGED <<sessionVars, pageVars, hDriver, hQuits, hSessions, hUrl, hRace,
                   loopVars, hRequest, profilePageVars, calleeFrame>>

\* ---- extractProfilesFromCurrentPage ----
\* potentialUsernames of a page, in insertion order.
UsernameLists == {<<>>, <<"alice">>, <<"alice", "bob">>}

ExtractProfilesEnter ==
    /\ xPc' = "getPageSource"
    /\ xUsernames' = <<>>
    /\ xProfiles' = <<>>

ExtractProfilesLeave ==
    /\ xPc' = "idle"
    /\ xUsernames' = <<>>
    /\ xProfiles' = <<>>

\* The for loop over potentialUsernames: return profiles when none is left.
UsernameLoop(usernames) == IF usernames = <<>> THEN "done" ELSE "loop"

\* const pageSource = await driver.getPageSource();
GetPageSource(ok) ==
    /\ xPc = "getPageSource"
    /\ xPc' = (IF ok THEN "findBody" ELSE "thrown")
    /\ UNCHANGED <<xUsernames, xProfiles, sessionVars, pageVars, handlerVars, crawlVars,
                   calleeFrame>>

\* driver.findElement(By.css('body'))
FindBody(ok) ==
    /\ xPc = "findBody"
    /\ xPc' = (IF ok THEN "getBodyText" ELSE "thrown")
    /\ UNCHANGED <<xUsernames, xProfiles, sessionVars, pageVars, handlerVars, crawlVars,
                   calleeFrame>>

\* .getText(), then matchAll and the filter that fills potentialUsernames.
GetBodyText(ok, usernames) ==
    /\ xPc = "getBodyText"
    /\ IF ok
         THEN /\ xUsernames' = usernames
              /\ xPc' = UsernameLoop(usernames)
         ELSE /\ xPc' = "thrown"
              /\ UNCHANGED xUsernames
    /\ UNCHANGED <<xProfiles, sessionVars, pageVars, handlerVars, crawlVars, calleeFrame>>

\* One iteration for the next username: a cached username is answered in
\* place and the loop continues; any other goes to
\* validateTwitterUsername(username, driver).
ValidateNextUsername ==
    /\ xPc = "loop"
    /\ vPc \in {"idle", "returned"}
    /\ LET username == Head(xUsernames)
       IN  IF MapHas(validatedProfiles, username)
             THEN /\ ObserveQuery("profiles", username, TRUE)
                  /\ AnswerFromCache("profiles", username)
                  /\ xProfiles' = (IF MapGet(validatedProfiles, username)
                                     THEN Append(xProfiles, username) ELSE xProfiles)
                  /\ xUsernames' = Tail(xUsernames)
                  /\ xPc' = UsernameLoop(Tail(xUsernames))
             ELSE /\ ValidateTwitterUsername("profiles", username, TRUE)
                  /\ xPc' = "validate"
                  /\ UNCHANGED <<xUsernames, xProfiles>>
    /\ RecordRaw(Head(xUsernames))
    /\ UNCHANGED <<retryVars, extractVars, pageVars, crawlVars, handlerVars, registryVars,
                   determineVars, scenarioVars>>

\* Faulty variant: the username is listed whatever the validation returned.
ValidationReturnedListsAll ==
    /\ xPc = "validate"
    /\ vPc = "returned"
    /\ xProfiles' = Append(xProfiles, vUser)
    /\ xPc' = "sleep"
    /\ UNCHANGED <<xUsernames, sessionVars, pageVars, handlerVars, crawlVars, calleeFrame>>

\* const isValid = await validateTwitterUsername(username, driver) has
\* returned: if (isValid) profiles.push(username).
ValidationReturned ==
    /\ xPc = "validate"
    /\ vPc = "returned"
    /\ xProfiles' = (IF vResult THEN Append(xProfiles, vUser) ELSE xProfiles)
    /\ xPc' = "sleep"
    /\ UNCHANGED <<xUsernames, sessionVars, pageVars, handlerVars, crawlVars, calleeFrame>>

\* await driver.sleep(1000); the next iteration.
UsernameSleep ==
    /\ xPc = "sleep"
    /\ xUsernames' = Tail(xUsernames)
    /\ xPc' = UsernameLoop(Tail(xUsernames))
    /\ UNCHANGED <<xProfiles, sessionVars, pageVars, handlerVars, crawlVars, calleeFrame>>

\* ---- seleniumProfilesAction.handler ----
\* The three promises given to Promise.race after a click.
RaceOperations == {"urlWait", "stalenessWait", "sleep"}

\* Entry of the profiles handler up to Builder.build(): the seed URL is the
\* WEBSITE_URL setting.
SeleniumProfilesHandler(textUrl, setting) ==
    /\ hPc = "idle"
    /\ hAction = "none"
    /\ hAction' = "profiles"
    /\ hRequest' = [url |-> textUrl, setting |-> setting]
    /\ IF setting = "none"
         THEN /\ HandlerCatch(NoUrlProfiles)
              /\ UNCHANGED hUrl
         ELSE /\ hUrl' = setting
              /\ hPc' = "build"
              /\ UNCHANGED outcomeVars
    /\ UNCHANGED <<bWindows, bActive, pageVars, hDriver, hQuits, hSessions, hTypes,
                   hResults, hRace, loopVars, crawlVars, profilePageVars, calleeFrame>>

\* driver = await new Builder()...build();
BuildDriver(ok) ==
    /\ hPc = "build"
    /\ IF ok
         THEN /\ NewSession
              /\ hPc' = "setTimeouts"
              /\ UNCHANGED outcomeVars
         ELSE /\ HandlerCatch("SessionNotCreatedError")
              /\ UNCHANGED <<hDriver, hSessions, bWindows, bActive>>
    /\ UNCHANGED <<hAction, pageVars, hQuits, hUrl, hTypes, hResults, hRace, loopVars,
                   hRequest, crawlVars, profilePageVars, calleeFrame>>

\* await driver.manage().setTimeouts(...)
SetTimeouts(ok) ==
    /\ hPc = "setTimeouts"
    /\ IF ok
         THEN /\ hPc' = "get"
              /\ UNCHANGED outcomeVars
         ELSE HandlerCatch("WebDriverError")
    /\ UNCHANGED <<sessionVars, pageVars, hDriver, hQuits, hSessions, hUrl, hTypes,
                   hResults, hRace, loopVars, hRequest, crawlVars, profilePageVars,
                   calleeFrame>>

\* await driver.get(websiteUrl);
ProfilesGet(ok) ==
    /\ hPc = "get"
    /\ hAction = "profiles"
    /\ IF ok
         THEN /\ bUrl' = hUrl
              /\ bDom' = 0
              /\ hPc' = "readyWait"
              /\ UNCHANGED outcomeVars
         ELSE /\ HandlerCatch("WebDriverError")
              /\ UNCHANGED pageVars
    /\ UNCHANGED <<sessionVars, hDriver, hQuits, hSessions, hUrl, hTypes, hResults,
                   hRace, loopVars, hRequest, crawlVars, profilePageVars, calleeFrame>>

\* The wait for document.readyState; its failure skips the wait for body.
ReadyStateWait(ok) ==
    /\ hPc = "readyWait"
    /\ hPc' = (IF ok THEN "bodyWait" ELSE "settle")
    /\ UNCHANGED <<sessionVars, pageVars, hDriver, hQuits, hSessions, hUrl, hTypes,
                   hResults, hRace, loopVars, hRequest, outcomeVars, crawlVars,
                   profilePageVars, calleeFrame>>

\* The wait for the body element; its failure is logged.
BodyWait ==
    /\ hPc = "bodyWait"
    /\ hPc' = "settle"
    /\ UNCHANGED <<sessionVars, pageVars, hDriver, hQuits, hSessions, hUrl, hTypes,
                   hResults, hRace, loopVars, hRequest, outcomeVars, crawlVars,
                   profilePageVars, calleeFrame>>

\* await driver.sleep(2000); then extractProfilesFromCurrentPage(driver) for
\* the main page.
ProfilesSettle ==
    /\ hPc = "settle"
    /\ hPc' = "mainExtract"
    /\ ExtractProfilesEnter
    /\ UNCHANGED <<sessionVars, pageVars, hDriver, hQuits, hSessions, hUrl, hTypes,
                   hResults, hRace, loopVars, hRequest, outcomeVars, crawlVars,
                   calleeFrame>>

\* The test i < elements.length of the loop over the interactive elements.
ElementPc(i, n) == IF i < n THEN "refind" ELSE "quit"

\* continue, from the loop body or from the element's catch block.
ContinueElements ==
    /\ hIndex' = hIndex + 1
    /\ hPc' = ElementPc(hIndex + 1, hCount)

\* allProfiles.push(...mainPageProfiles), or the failure of the main page's
\* extraction, which no inner try encloses.
MainPageExtracted ==
    /\ hPc = "mainExtract"
    /\ xPc \in {"done", "thrown"}
    /\ IF xPc = "done"
         THEN /\ hProfiles' = hProfiles \o xProfiles
              /\ hPc' = "findElements"
              /\ UNCHANGED outcomeVars
         ELSE /\ HandlerCatch("WebDriverError")
              /\ UNCHANGED hProfiles
    /\ ExtractProfilesLeave
    /\ UNCHANGED <<sessionVars, pageVars, hDriver, hQuits, hSessions, hUrl, hTypes,
                   hResults, hRace, hIndex, hCount, hCurrentUrl, hRequest, crawlVars,
                   calleeFrame>>

\* const elements = await driver.findElements(By.css(interactiveSelectors));
FindElements(ok, count) ==
    /\ hPc = "findElements"
    /\ IF ok
         THEN /\ hCount' = count
              /\ hIndex' = 0
              /\ hPc' = ElementPc(0, count)
              /\ UNCHANGED outcomeVars
         ELSE /\ HandlerCatch("WebDriverError")
              /\ UNCHANGED <<hCount, hIndex>>
    /\ UNCHANGED <<sessionVars, pageVars, hDriver, hQuits, hSessions, hUrl, hTypes,
                   hResults, hRace, hCurrentUrl, hProfiles, hRequest, crawlVars,
                   profilePageVars, calleeFrame>>

\* What a step of the loop body leaves alone when the page stays as it is.
elementFrame == <<sessionVars, hDriver, hQuits, hSessions, hUrl, hTypes, hResults,
                  hCount, hProfiles, hRequest, outcomeVars, crawlVars, calleeFrame>>

\* const currentElements = await driver.findElements(...);
\* if (i >= currentElements.length) continue;
RefindElements(ok, count) ==
    /\ hPc = "refind"
    /\ IF ok /\ hIndex < count
         THEN /\ hPc' = "getText"
              /\ UNCHANGED hIndex
         ELSE ContinueElements
    /\ UNCHANGED <<pageVars, hRace, hCurrentUrl, profilePageVars, elementFrame>>

\* await element.getText().catch(() => '')
GetElementText ==
    /\ hPc = "getText"
    /\ hPc' = "getTagName"
    /\ UNCHANGED <<pageVars, hRace, hIndex, hCurrentUrl, profilePageVars, elementFrame>>

\* await element.getTagName().catch(() => '')
GetTagName ==
    /\ hPc = "getTagName"
    /\ hPc' = "isDisplayed"
    /\ UNCHANGED <<pageVars, hRace, hIndex, hCurrentUrl, profilePageVars, elementFrame>>

\* await element.isDisplayed().catch(() => false); if (!isDisplayed) continue;
IsDisplayed(isDisplayed) ==
    /\ hPc = "isDisplayed"
    /\ IF isDisplayed
         THEN /\ hPc' = "getCurrentUrl"
              /\ UNCHANGED hIndex
         ELSE ContinueElements
    /\ UNCHANGED <<pageVars, hRace, hCurrentUrl, profilePageVars, elementFrame>>

\* const currentUrl = await driver.getCurrentUrl();
GetCurrentUrl(ok) ==
    /\ hPc = "getCurrentUrl"
    /\ IF ok
         THEN /\ hCurrentUrl' = bUrl
              /\ hPc' = "click"
              /\ UNCHANGED hIndex
         ELSE /\ ContinueElements
              /\ UNCHANGED hCurrentUrl
    /\ UNCHANGED <<pageVars, hRace, profilePageVars, elementFrame>>

\* The page after a click that took effect: it stays, or the browser goes to url.
ClickEffect(navigates, url) ==
    /\ bUrl' = (IF navigates THEN url ELSE bUrl)
    /\ bDom' = (IF navigates THEN 0 ELSE bDom)

\* Promise.race([driver.wait(...).catch(...), driver.wait(...).catch(...),
\* driver.sleep(2000)]): the three operations are started together.
StartRace ==
    /\ hRace' = RaceOperations
    /\ hPc' = "race"

\* await element.click(); a failure goes to the JavaScript click.
ClickElement(ok, navigates, url) ==
    /\ hPc = "click"
    /\ IF ok
         THEN /\ ClickEffect(navigates, url)
              /\ StartRace
         ELSE /\ hPc' = "jsClick"
              /\ UNCHANGED <<pageVars, hRace>>
    /\ UNCHANGED <<hIndex, hCurrentUrl, profilePageVars, elementFrame>>

\* await driver.executeScript('arguments[0].click()', element), inside the
\* catch of the click: its failure rejects the awaited promise.
JavaScriptClick(ok, navigates, url) ==
    /\ hPc = "jsClick"
    /\ IF ok
         THEN /\ ClickEffect(navigates, url)
              /\ StartRace
              /\ UNCHANGED hIndex
         ELSE /\ ContinueElements
              /\ UNCHANGED <<pageVars, hRace>>
    /\ UNCHANGED <<hCurrentUrl, profilePageVars, elementFrame>>

\* The race is settled by the first of its promises to settle; the handler
\* goes on to extractProfilesFromCurrentPage(driver) while the others run.
RaceSettles(op) ==
    /\ hPc = "race"
    /\ op \in hRace
    /\ hRace' = hRace \ {op}
    /\ hPc' = "elemExtract"
    /\ ExtractProfilesEnter
    /\ UNCHANGED <<pageVars, hIndex, hCurrentUrl, elementFrame>>

\* A promise that lost the race settles: a wait after its 2 s, the sleep
\* when its timer fires.
RaceLoserSettles(op) ==
    /\ hPc # "race"
    /\ op \in hRace
    /\ hRace' = hRace \ {op}
    /\ UNCHANGED <<hPc, pageVars, hIndex, hCurrentUrl, profilePageVars, elementFrame>>

\* allProfiles.push(...newProfiles); a failure of the extraction goes to the
\* element's catch block.
ElementPageExtracted ==
    /\ hPc = "elemExtract"
    /\ xPc \in {"done", "thrown"}
    /\ IF xPc = "done"
         THEN /\ hProfiles' = hProfiles \o xProfiles
              /\ hPc' = "getNewUrl"
              /\ UNCHANGED hIndex
         ELSE /\ ContinueElements
              /\ UNCHANGED hProfiles
    /\ ExtractProfilesLeave
    /\ UNCHANGED <<sessionVars, pageVars, hDriver, hQuits, hSessions, hUrl, hTypes,
                   hResults, hRace, hCount, hCurrentUrl, hRequest, outcomeVars, crawlVars,
                   calleeFrame>>

\* const newUrl = await driver.getCurrentUrl(); if (newUrl !== currentUrl) ...
GetNewUrl(ok) ==
    /\ hPc = "getNewUrl"
    /\ IF ok /\ bUrl # hCurrentUrl
         THEN /\ hPc' = "back"
              /\ UNCHANGED hIndex
         ELSE ContinueElements
    /\ UNCHANGED <<pageVars, hRace, hCurrentUrl, profilePageVars, elementFrame>>

\* await driver.navigate().back();
NavigateBack(ok) ==
    /\ hPc = "back"
    /\ IF ok
         THEN /\ bUrl' = hCurrentUrl
              /\ bDom' = 0
              /\ hPc' = "backSleep"
              /\ UNCHANGED hIndex
         ELSE /\ ContinueElements
              /\ UNCHANGED pageVars
    /\ UNCHANGED <<hRace, hCurrentUrl, profilePageVars, elementFrame>>

\* await driver.sleep(1000); the end of the loop body.
BackSleep ==
    /\ hPc = "backSleep"
    /\ ContinueElements
    /\ UNCHANGED <<pageVars, hRace, hCurrentUrl, profilePageVars, elementFrame>>

\* Faulty variant: driver is not set to null after the quit.
ProfilesQuitKeepsDriver(ok) ==
    /\ hPc = "quit"
    /\ hQuits' = hQuits + 1
    /\ bWindows' = (IF ok THEN {} ELSE bWindows)
    /\ bActive' = (IF ok THEN 0 ELSE bActive)
    /\ hCallbacks' = Append(hCallbacks, SuccessMessage)
    /\ hReturn' = "true"
    /\ hPc' = "finally"
    /\ UNCHANGED <<hAction, pageVars, hDriver, hSessions, hUrl, hTypes, hResults, hRace,
                   loopVars, hRequest, hFailure, crawlVars, profilePageVars, calleeFrame>>

\* await driver.quit().catch(...); driver = null; the update of
\* TWITTER_TARGET_USERS, the success message and return true. The finally
\* block finds driver null.
ProfilesQuit(ok) ==
    /\ hPc = "quit"
    /\ hQuits' = hQuits + 1
    /\ hDriver' = FALSE
    /\ bWindows' = (IF ok THEN {} ELSE bWindows)
    /\ bActive' = (IF ok THEN 0 ELSE bActive)
    /\ hCallbacks' = Append(hCallbacks, SuccessMessage)
    /\ hReturn' = "true"
    /\ hPc' = "returned"
    /\ UNCHANGED <<hAction, pageVars, hSessions, hUrl, hTypes, hResults, hRace,
                   loopVars, hRequest, hFailure, crawlVars, profilePageVars, calleeFrame>>

(***************************************************************************)
(* The flexible action on one seed page whose elements are known: the keys *)
(* email and phone, every browser call succeeding unless the call itself   *)
(* is at fault, no interactive element on the page.                        *)
(***************************************************************************)
\* Elements a seed page can hold: tag, href attribute and visible text.
PageElements ==
    { [tag |-> "a", href |-> "mailto:a@b.com", text |-> "Email us"],
      [tag |-> "a", href |-> "mailto:a@b.com", text |-> "a@b.com"],
      [tag |-> "p", href |-> "none", text |-> "call us at (555) 123-4567"],
      [tag |-> "a", href |-> "tel:5551234567", text |-> "(555) 123-4567"],
      [tag |-> "p", href |-> "none", text |-> "write to a@b.com"],
      [tag |-> "a", href |-> "https://a.example/about", text |-> "About"] }

SeedPages == UNION {[1..n -> PageElements] : n \in 0..MaxPageElements}

\* dataTypes of the request, in the order of the registry.
ScenarioDataTypes == <<"email", "phone">>

\* dataPatterns.email.config.selectors and dataPatterns.phone.config.selectors
SelectorsOf(key) ==
    IF key = "email" THEN <<"a[href^=\"mailto:\"]", "*:contains(@)">>
    ELSE <<"a[href^=\"tel:\"]", "*:contains(+)", "*:contains(phone)">>

\* :contains() is no CSS selector: By.css of it makes findElements raise
\* InvalidSelectorError on every attempt.
ValidCss(selector) == selector \in {"a[href^=\"mailto:\"]", "a[href^=\"tel:\"]"}

\* driver.findElements(By.css(selector)) for the two attribute selectors.
FindElementsByCss(page, selector) ==
    LET prefixed(href) == IF selector = "a[href^=\"mailto:\"]"
                            THEN href = "mailto:a@b.com"
                            ELSE href = "tel:5551234567"
    IN  SelectSeq(page, LAMBDA element : element.tag = "a" /\ prefixed(element.href))

\* text.match(regex) for the regex of the key, both with the g flag: every
\* match of the text, <<>> for null.
TextMatch(key, text) ==
    CASE key = "email" /\ text \in {"a@b.com", "write to a@b.com"} -> <<"a@b.com">>
      [] key = "phone" /\ text \in {"call us at (555) 123-4567", "(555) 123-4567"} ->
           <<"(555) 123-4567">>
      [] OTHER -> <<>>

\* !pattern.config.validate || pattern.config.validate(value): the email
\* pattern tests the whole value against its regex, phone has no validate.
ScenarioValidate(key, value) == key = "email" => value = "a@b.com"

\* The loop over the elements of one selector: neither pattern has
\* config.attribute, so the text is element.getText(); no transform.
RECURSIVE ElementsLoop(_, _, _)
ElementsLoop(key, elements, results) ==
    IF elements = <<>> THEN results
    ELSE LET text == Head(elements).text
             values == SelectSeq(TextMatch(key, text),
                                 LAMBDA value : ScenarioValidate(key, value))
         IN  ElementsLoop(key, Tail(elements), SetAddAll(results, values))

\* The loop over pattern.config.selectors: retryOperation raises the failure
\* of findElements after its third attempt, the selector's catch continues.
RECURSIVE SelectorsLoop(_, _, _, _)
SelectorsLoop(page, key, selectors, results) ==
    IF selectors = <<>> THEN results
    ELSE IF ValidCss(Head(selectors))
      THEN SelectorsLoop(page, key, Tail(selectors),
                         ElementsLoop(key, FindElementsByCss(page, Head(selectors)), results))
    ELSE SelectorsLoop(page, key, Tail(selectors), results)

\* crawlAndExtract(driver, websiteUrl, pattern) on the seed page alone:
\* Array.from(results) after the page's extractDataByPattern was merged.
CrawlSeedPage(page, key) == SetAddAll(<<>>, SelectorsLoop(page, key, SelectorsOf(key), <<>>))

ScenarioIdle ==
    /\ sPage = <<>>
    /\ sResults = <<>>
    /\ targetUsers = <<"">>

\* results[dataType] = await crawlAndExtract(driver, websiteUrl, pattern) for
\* the next key of dataTypes.
CrawlScenarioKey ==
    /\ Len(sResults) < Len(ScenarioDataTypes)
    /\ LET key == ScenarioDataTypes[Len(sResults) + 1]
       IN  sResults' = Append(sResults, [key |-> key, values |-> CrawlSeedPage(sPage, key)])
    /\ UNCHANGED <<sPage, targetUsers, retryVars, sessionVars, cacheVars, validateVars,
                   extractVars, pageVars, crawlVars, handlerVars, profilePageVars,
                   registryVars, determineVars>>

(***************************************************************************)
(* TWITTER_TARGET_USERS and its update by seleniumProfilesAction.handler.  *)
(* A string is held as the sequence of the pieces between its commas, so   *)
(* split(',') and join(',') keep the pieces as they are; the empty string  *)
(* is one empty piece.                                                     *)
(***************************************************************************)
\* Pieces a list written in the environment can hold: a handle, a handle
\* after a comma and a space, nothing.
EnvPieces == {"alice", "bob", " bob", "carol", ""}

\* The values TWITTER_TARGET_USERS can have when the process starts.
EnvLists == UNION {[1..n -> EnvPieces] : n \in 1..MaxListed}

\* String.prototype.trim on the pieces of the model.
Trim(piece) == IF piece = " bob" THEN "bob" ELSE piece

\* updatedUsers.join(','): the empty list gives the empty string.
Join(list) == IF list = <<>> THEN <<"">> ELSE list

\* uniqueProfiles: validated handles of the pages, each once.
UniqueProfileLists == {<<>>, <<"alice">>, <<"bob">>, <<"alice", "bob">>, <<"bob", "alice">>}

\* const currentUsers = currentTargetUsers.split(',').filter(u => u.trim());
\* const updatedUsers = [...new Set([...currentUsers, ...uniqueProfiles])];
\* process.env.TWITTER_TARGET_USERS = updatedUsers.join(','). getSetting is
\* taken to return the value of process.env.
UpdateTargetUsers(uniqueProfiles) ==
    /\ LET currentUsers == SelectSeq(targetUsers, LAMBDA u : Trim(u) # "")
       IN  targetUsers' = Join(SetAddAll(<<>>, currentUsers \o uniqueProfiles))
    /\ UNCHANGED <<sPage, sResults, retryVars, sessionVars, cacheVars, validateVars,
                   extractVars, pageVars, crawlVars, handlerVars, profilePageVars,
                   registryVars, determineVars>>

(***************************************************************************)
(* SpecCache: any sequence of runs of the two handlers in one process,     *)
(* each run querying any usernames of its pages in any order.              *)
(***************************************************************************)
InitCache ==
    /\ RegistryDeclared
    /\ DetermineIdle
    /\ HandlerIdle
    /\ ProfilePageIdle
    /\ ProcessStart
    /\ ValidateIdle
    /\ RetryIdle
    /\ ExtractIdle
    /\ PageIdle
    /\ CrawlIdle
    /\ ScenarioIdle

NextCache ==
    \/ \E action \in {"flexible", "profiles"} : CreateSession(action)
    \/ QuitSession
    \/ \E raw \in RawHandles : TwitterTransform(raw)
    \/ \E raw \in RawHandles : ValidateUsernameOfPage(raw)
    \/ \E ok \in BOOLEAN : GetWindowHandle(ok)
    \/ \E ok \in BOOLEAN : WindowOpen(ok)
    \/ \E ok \in BOOLEAN : GetAllWindowHandles(ok)
    \/ \E ok \in BOOLEAN : SwitchToNew(ok)
    \/ \E ok \in BOOLEAN : GetProfileUrl(ok)
    \/ SettleSleep
    \/ \E ok, isValid \in BOOLEAN : CheckProfile(ok, isValid)
    \/ \E ok \in BOOLEAN : CloseWindow(ok)
    \/ \E ok \in BOOLEAN : SwitchToMain(ok)

SpecCache == InitCache /\ [][NextCache]_vars

(***************************************************************************)
(* Properties of the validation cache                                      *)
(***************************************************************************)
\* C6: over any sequence of runs of the two handlers, the browser navigates
\* to the profile URL of a handle at most once, and every query for a handle
\* after the first one, whichever action issues it, navigates nowhere.
C6_Original ==
    /\ \A h \in Handles : navCount[h] <= 1
    /\ vNavigated => vFirstQuery

\* C7: a validation that fails returns false and stores false for the handle,
\* and no later query for that handle navigates to its profile URL.
C7_Original ==
    /\ (vPc = "returned" /\ vFailed) =>
          (vResult = FALSE /\ CacheOf(vCaller)[vUser] = "invalid")
    /\ vNavigated => ~vFailedBefore

\* C8: when validateTwitterUsername has returned for an uncached handle, the
\* set of open windows and the active window are what they were at the call.
C8_Original ==
    (vPc = "returned" /\ ~vCacheHit) =>
        (bWindows = vEntryWindows /\ bActive = vEntryActive)

\* C23: whenever validateTwitterUsername has returned for a handle that was
\* not cached, and so has written the handle's cache entry, it had called
\* driver.get on the handle's profile URL.
C23_Original ==
    (vPc = "returned" /\ ~vCacheHit) => vNavigated

\* An entry of a cache, once present, keeps its boolean from one step to the next.
KeepsEntries(map, mapNext) ==
    \A h \in Handles : MapHas(map, h) => mapNext[h] = map[h]

\* The boolean is the one of every entry a cache holds for the handle.
AgreesWithEntries(result, handle, maps) ==
    \A map \in maps : MapHas(map, handle) => result = MapGet(map, handle)

\* C24: no step changes or removes an entry a validation cache holds, and
\* every query returns the boolean of every cache entry held for its handle.
C24_Original ==
    [][/\ KeepsEntries(validatedFlexible, validatedFlexible')
       /\ KeepsEntries(validatedProfiles, validatedProfiles')
       /\ vPc' = "returned" =>
             AgreesWithEntries(vResult', vUser', {validatedFlexible', validatedProfiles'})]_vars

\* C25: a query whose handle was queried before in another spelling of its
\* letters' case is answered from the cache, without navigation.
C25_Original ==
    (/\ vPc = "returned"
     /\ \E raw \in rawQueried \ {vRaw} : ToLowerCase(raw) = ToLowerCase(vRaw)) =>
        (vCacheHit /\ ~vNavigated)

(***************************************************************************)
(* SpecRetry: one invocation of retryOperation with any maxRetries >= 1,   *)
(* with or without a driver, against an operation whose every invocation   *)
(* succeeds or fails with any failure class.                               *)
(***************************************************************************)
InitRetry ==
    /\ RegistryDeclared
    /\ DetermineIdle
    /\ HandlerIdle
    /\ ProfilePageIdle
    /\ rPc = "attempt"
    /\ rMax \in 1..MaxAttempts
    /\ rDriver \in BOOLEAN
    /\ rI = 0
    /\ rLastError = NoValue
    /\ rOut = NoValue
    /\ rCalls = 0
    /\ rRefreshes = 0
    /\ rSleeps = 0
    /\ rSucceeded = FALSE
    /\ ProcessStart
    /\ ValidateIdle
    /\ ExtractIdle
    /\ PageIdle
    /\ CrawlIdle
    /\ ScenarioIdle

NextRetry ==
    \/ OperationSucceeds
    \/ \E name \in ErrorNames : OperationFails(name)
    \/ \E ok \in BOOLEAN : RefreshPage(ok)
    \/ DriverSleep
    \/ TimerSleep

SpecRetry == InitRetry /\ [][NextRetry]_vars

(***************************************************************************)
(* SpecExtract: one invocation of extractDataByPattern by the flexible     *)
(* action, for any pattern, on a page whose elements and texts are chosen  *)
(* as the browser calls return, every browser call free to fail.           *)
(***************************************************************************)
InitExtract ==
    /\ RegistryDeclared
    /\ DetermineIdle
    /\ HandlerIdle
    /\ ProfilePageIdle
    /\ hAction = "flexible"
    /\ bWindows = {1}
    /\ bActive = 1
    /\ validatedFlexible = EmptyMap
    /\ validatedProfiles = EmptyMap
    /\ ValidateIdle
    /\ RetryIdle
    /\ ePc = "waitBody"
    /\ ePattern \in PatternKeys
    /\ eResults = <<>>
    /\ eSelector = 0
    /\ eElements = 0
    /\ eLog = <<>>
    /\ eSkipped = {}
    /\ nextObject = 1
    /\ bUrl \in Urls
    /\ bDom = 0
    /\ CrawlIdle
    /\ ScenarioIdle

NextExtract ==
    \/ \E ok \in BOOLEAN : WaitForBody(ok)
    \/ \E count \in 0..MaxElements : ElementsFound(count)
    \/ SelectorFails
    \/ \E matches \in MatchLists(ePattern) : TextRead(matches)
    \/ ElementFails
    \/ OperationSucceeds
    \/ \E name \in ErrorNames : OperationFails(name)
    \/ \E ok \in BOOLEAN : RefreshPage(ok)
    \/ DriverSleep
    \/ TimerSleep

SpecExtract == InitExtract /\ [][NextExtract]_vars

(***************************************************************************)
(* SpecCrawl: one invocation of crawlAndExtract by the flexible action,    *)
(* for any seed URL and pattern, the browser on any page when it begins,   *)
(* every browser call free to fail and every click free to change the page.*)
(***************************************************************************)
InitCrawl ==
    /\ RegistryDeclared
    /\ DetermineIdle
    /\ HandlerIdle
    /\ ProfilePageIdle
    /\ hAction = "flexible"
    /\ bWindows = {1}
    /\ bActive = 1
    /\ validatedFlexible = EmptyMap
    /\ validatedProfiles = EmptyMap
    /\ ValidateIdle
    /\ RetryIdle
    /\ ExtractIdle
    /\ PageIdle
    /\ CrawlIdle
    /\ ScenarioIdle

NextCrawl ==
    \/ \E baseUrl \in Urls, key \in PatternKeys : CrawlAndExtract(baseUrl, key)
    \/ \E ok \in BOOLEAN : DriverGet(ok)
    \/ \E ok \in BOOLEAN : CrawlWaitForBody(ok)
    \/ CrawlSettle
    \/ PageExtracted
    \/ \E ok \in BOOLEAN, count \in 0..MaxInteractive : FindInteractive(ok, count)
    \/ \E isDisplayed \in BOOLEAN : VisibilityChecked(isDisplayed)
    \/ InteractionFails
    \/ \E ok \in BOOLEAN : SnapshotBefore(ok)
    \/ \E effect \in {"none", "reveal", "navigate"}, url \in Urls : Clicked(effect, url)
    \/ ClickSettle
    \/ \E ok \in BOOLEAN : SnapshotAfter(ok)
    \/ ClickExtracted
    \/ \E ok \in BOOLEAN : WaitForBody(ok)
    \/ \E count \in 0..MaxElements : ElementsFound(count)
    \/ SelectorFails
    \/ \E matches \in MatchLists(ePattern) : TextRead(matches)
    \/ ElementFails
    \/ OperationSucceeds
    \/ \E name \in ErrorNames : OperationFails(name)
    \/ \E ok \in BOOLEAN : RefreshPage(ok)
    \/ DriverSleep
    \/ TimerSleep

SpecCrawl == InitCrawl /\ [][NextCrawl]_vars

\* The same crawl, when a step that can be taken is taken: every browser
\* call returns or fails, and every timer fires.
SpecCrawlFair == InitCrawl /\ [][NextCrawl]_vars /\ WF_vars(NextCrawl)

(***************************************************************************)
(* SpecTypes: determineDataTypes called any number of times in one         *)
(* process, with any request text and any answers of the classifier.       *)
(***************************************************************************)
InitTypes ==
    /\ RegistryDeclared
    /\ DetermineIdle
    /\ HandlerIdle
    /\ ProfilePageIdle
    /\ ProcessStart
    /\ ValidateIdle
    /\ RetryIdle
    /\ ExtractIdle
    /\ PageIdle
    /\ CrawlIdle
    /\ ScenarioIdle

NextTypes ==
    \/ \E text \in Texts, answer \in ClassifierAnswers, synth \in SynthOutcomes,
          classifierFails \in BOOLEAN :
           DetermineDataTypesCall(text, answer, synth, classifierFails)
    \/ \E text \in Texts, answer \in CapitalisedAnswers, synth \in {NoSynth, Declared} :
           DetermineDataTypesCall(text, answer, synth, FALSE)

SpecTypes == InitTypes /\ [][NextTypes]_vars

(***************************************************************************)
(* SpecHandler: one invocation of either handler in a fresh process, with  *)
(* any request and settings, every browser call free to fail, every page   *)
(* holding any usernames or matches.                                       *)
(***************************************************************************)
InitHandler ==
    /\ RegistryDeclared
    /\ DetermineIdle
    /\ HandlerIdle
    /\ ProfilePageIdle
    /\ ProcessStart
    /\ ValidateIdle
    /\ RetryIdle
    /\ ExtractIdle
    /\ PageIdle
    /\ CrawlIdle
    /\ ScenarioIdle

NextHandler ==
    \/ \E text \in HandlerTexts, textUrl \in SeedUrls, setting \in SeedUrls,
          answer \in {"generated", "notString"}, synth \in {NoSynth, Declared},
          classifierFails \in BOOLEAN :
            SeleniumFlexibleHandler(text, textUrl, setting, answer, synth, classifierFails)
    \/ \E ok \in BOOLEAN : SetupWebDriver(ok)
    \/ \E ok \in BOOLEAN : FlexibleGet(ok)
    \/ CrawlReturned
    \/ \E ok \in BOOLEAN : FinallyQuit(ok)
    \/ \E textUrl \in SeedUrls, setting \in SeedUrls : SeleniumProfilesHandler(textUrl, setting)
    \/ \E ok \in BOOLEAN : BuildDriver(ok)
    \/ \E ok \in BOOLEAN : SetTimeouts(ok)
    \/ \E ok \in BOOLEAN : ProfilesGet(ok)
    \/ \E ok \in BOOLEAN : ReadyStateWait(ok)
    \/ BodyWait
    \/ ProfilesSettle
    \/ \E ok \in BOOLEAN : GetPageSource(ok)
    \/ \E ok \in BOOLEAN : FindBody(ok)
    \/ \E ok \in BOOLEAN, usernames \in UsernameLists : GetBodyText(ok, usernames)
    \/ ValidateNextUsername
    \/ ValidationReturned
    \/ UsernameSleep
    \/ MainPageExtracted
    \/ \E ok \in BOOLEAN, count \in 0..MaxProfileElements : FindElements(ok, count)
    \/ \E ok \in BOOLEAN, count \in 0..MaxProfileElements : RefindElements(ok, count)
    \/ GetElementText
    \/ GetTagName
    \/ \E isDisplayed \in BOOLEAN : IsDisplayed(isDisplayed)
    \/ \E ok \in BOOLEAN : GetCurrentUrl(ok)
    \/ \E ok, navigates \in BOOLEAN, url \in Urls : ClickElement(ok, navigates, url)
    \/ \E ok, navigates \in BOOLEAN, url \in Urls : JavaScriptClick(ok, navigates, url)
    \/ \E op \in RaceOperations : RaceSettles(op)
    \/ \E op \in RaceOperations : RaceLoserSettles(op)
    \/ ElementPageExtracted
    \/ \E ok \in BOOLEAN : GetNewUrl(ok)
    \/ \E ok \in BOOLEAN : NavigateBack(ok)
    \/ BackSleep
    \/ \E ok \in BOOLEAN : ProfilesQuit(ok)
    \/ \E ok \in BOOLEAN : GetWindowHandle(ok)
    \/ \E ok \in BOOLEAN : WindowOpen(ok)
    \/ \E ok \in BOOLEAN : GetAllWindowHandles(ok)
    \/ \E ok \in BOOLEAN : SwitchToNew(ok)
    \/ \E ok \in BOOLEAN : GetProfileUrl(ok)
    \/ SettleSleep
    \/ \E ok, isValid \in BOOLEAN : CheckProfile(ok, isValid)
    \/ \E ok \in BOOLEAN : CloseWindow(ok)
    \/ \E ok \in BOOLEAN : SwitchToMain(ok)
    \/ \E ok \in BOOLEAN : DriverGet(ok)
    \/ \E ok \in BOOLEAN : CrawlWaitForBody(ok)
    \/ CrawlSettle
    \/ PageExtracted
    \/ \E ok \in BOOLEAN, count \in 0..MaxInteractive : FindInteractive(ok, count)
    \/ \E isDisplayed \in BOOLEAN : VisibilityChecked(isDisplayed)
    \/ InteractionFails
    \/ \E ok \in BOOLEAN : SnapshotBefore(ok)
    \/ \E effect \in {"none", "reveal", "navigate"}, url \in Urls : Clicked(effect, url)
    \/ ClickSettle
    \/ \E ok \in BOOLEAN : SnapshotAfter(ok)
    \/ ClickExtracted
    \/ \E ok \in BOOLEAN : WaitForBody(ok)
    \/ \E count \in 0..MaxElements : ElementsFound(count)
    \/ SelectorFails
    \/ \E matches \in MatchLists(ePattern) : TextRead(matches)
    \/ ElementFails
    \/ OperationSucceeds
    \/ \E name \in ErrorNames : OperationFails(name)
    \/ \E ok \in BOOLEAN : RefreshPage(ok)
    \/ DriverSleep
    \/ TimerSleep

SpecHandler == InitHandler /\ [][NextHandler]_vars

(***************************************************************************)
(* SpecScenario: the flexible action asked for email and phone on any seed *)
(* page of SeedPages.                                                      *)
(***************************************************************************)
InitScenario ==
    /\ RegistryDeclared
    /\ DetermineIdle
    /\ HandlerIdle
    /\ ProfilePageIdle
    /\ ProcessStart
    /\ ValidateIdle
    /\ RetryIdle
    /\ ExtractIdle
    /\ PageIdle
    /\ CrawlIdle
    /\ sPage \in SeedPages
    /\ sResults = <<>>
    /\ targetUsers = <<"">>

NextScenario == CrawlScenarioKey

SpecScenario == InitScenario /\ [][NextScenario]_vars

(***************************************************************************)
(* SpecTargetUsers: any number of successful runs of the profiles handler  *)
(* in one process, from any list in the environment.                       *)
(***************************************************************************)
InitTargetUsers ==
    /\ RegistryDeclared
    /\ DetermineIdle
    /\ HandlerIdle
    /\ ProfilePageIdle
    /\ ProcessStart
    /\ ValidateIdle
    /\ RetryIdle
    /\ ExtractIdle
    /\ PageIdle
    /\ CrawlIdle
    /\ sPage = <<>>
    /\ sResults = <<>>
    /\ targetUsers \in EnvLists

NextTargetUsers == \E uniqueProfiles \in UniqueProfileLists : UpdateTargetUsers(uniqueProfiles)

SpecTargetUsers == InitTargetUsers /\ [][NextTargetUsers]_vars

(***************************************************************************)
(* Properties of extractDataByPattern                                      *)
(***************************************************************************)
\* A value without its identity: two objects built from equal content are
\* the same value extracted twice.
Content(value) == <<value.type, value.v>>

NoDuplicateContent(list) ==
    \A i, j \in 1..Len(list) : i # j => Content(list[i]) # Content(list[j])

\* C9: for every match, transform is applied before validate, validate is
\* applied to the value transform returned, and no value for which validate
\* returned false is in the output.
C9_TransformThenValidate ==
    LET hasTransform == DataPatterns[ePattern].transform # "none"
        hasValidate == DataPatterns[ePattern].validate # "none"
        n == Len(eLog)
    IN  ePattern \in PatternKeys =>
          /\ \A i \in 1..n :
               eLog[i].fn = "validate" =>
                 /\ hasTransform =>
                      /\ i > 1
                      /\ eLog[i - 1].fn = "transform"
                      /\ eLog[i].arg = eLog[i - 1].ret
                 /\ ~eLog[i].pass => eLog[i].arg \notin Range(eResults)
          /\ \A i \in 1..n :
               (eLog[i].fn = "transform" /\ hasValidate) =>
                 (i < n /\ eLog[i + 1].fn = "validate")
          /\ hasValidate => \A i \in 1..Len(eResults) : ApplyValidate(ePattern, eResults[i])

\* C9 witness: a pattern with transform and validate read a text with two
\* matches; the transformed value of one failed validate and was left out,
\* the other passed and is in the output.
C9_Witness ==
    /\ ePattern = "generated"
    /\ Len(eLog) = 4
    /\ \E i \in 1..Len(eLog) :
         eLog[i].fn = "validate" /\ ~eLog[i].pass /\ eLog[i].arg = Str("K1")
    /\ Str("K2") \in Range(eResults)
    /\ Str("K1") \notin Range(eResults)

\* C10: no match whose transform yields null or another falsy value, or a
\* promise that resolves to null, is ever in the result set.
C10_Original ==
    \A i \in 1..Len(eResults) :
        /\ ~Falsy(eResults[i])
        /\ ~(eResults[i].type = "promise" /\ eResults[i].v = "null")

\* C5: the list extractDataByPattern returns holds no value twice, also for
\* transforms that build a new object or promise per match.
C5_Original ==
    /\ ePc = "done" => NoDuplicateContent(eResults)
    /\ cPc = "done" => NoDuplicateContent(cResults)

(***************************************************************************)
(* Properties of retryOperation                                            *)
(***************************************************************************)
\* Number of invocations of the operation that failed so far.
RetryFailed == IF rSucceeded THEN rCalls - 1 ELSE rCalls

\* C2: when the operation fails on its first k attempts (k <= maxAttempts - 1)
\* and then succeeds, retryOperation returns the value of that successful
\* invocation and has invoked the operation exactly k + 1 times.
C2_ReturnsSuccessAfterFailures ==
    /\ rSucceeded =>
          /\ rPc = "returned"
          /\ RetryFailed <= rMax - 1
          /\ rCalls = RetryFailed + 1
          /\ rOut = OperationValue(RetryFailed + 1)
    /\ rPc = "returned" => rSucceeded

\* C2 witness: a success on the last allowed attempt, after maxAttempts - 1
\* failures of both classes (refresh path and plain sleep path).
C2_Witness ==
    /\ rPc = "returned"
    /\ rMax >= 3
    /\ RetryFailed = rMax - 1
    /\ rRefreshes >= 1
    /\ rSleeps > rRefreshes

\* C3 as stated: whenever retryOperation raises a failure, the operation was
\* invoked exactly maxAttempts times and the failure raised is the failure of
\* the last attempt.
C3_Original ==
    /\ rCalls <= rMax
    /\ rPc = "thrown" =>
          /\ rCalls = rMax
          /\ rOut = rLastError
          /\ rOut.src = "operation"
          /\ rOut.attempt = rMax

\* C3 amended: the operation is never invoked more than maxAttempts times;
\* when retryOperation raises a failure, either it is the failure of the
\* maxAttempts-th (last) invocation, or it is the failure of a page refresh
\* that followed a stale failure with a driver supplied, raised at once.
C3_RaisesLastFailureUnlessRefreshFails ==
    /\ rCalls <= rMax
    /\ rPc = "thrown" =>
          IF rOut.src = "refresh"
            THEN /\ rDriver
                 /\ rLastError.name = StaleName
                 /\ rLastError.attempt = rCalls
                 /\ rOut = RefreshError(rCalls)
            ELSE /\ rCalls = rMax
                 /\ rOut = rLastError
                 /\ rOut.src = "operation"
                 /\ rOut.attempt = rMax

\* C3 witness: every attempt failed, with stale and other failures mixed,
\* and the last failure was raised after maxAttempts invocations.
C3_Witness ==
    /\ rPc = "thrown"
    /\ rMax >= 3
    /\ rCalls = rMax
    /\ rOut.src = "operation"
    /\ rRefreshes >= 1
    /\ rSleeps > rRefreshes

C1_AtMostMaxPagesSeedFirst ==
    /\ Cardinality(visitedUrls) <= MAX_PAGES
    /\ Cardinality(Range(cNavigated)) <= MAX_PAGES
    /\ Range(cNavigated) \subseteq visitedUrls
    /\ cPc # "idle" => cBaseUrl \in visitedUrls
    /\ cNavigated # <<>> => cNavigated[1] = cBaseUrl
    /\ cPc \notin {"idle", "get"} => cNavigated # <<>>

\* A crawl that returned after a click loaded another document and the
\* extraction was run again there: its one navigation was to the seed.
C1_Witness ==
    /\ cPc = "done"
    /\ cNavigated = <<cBaseUrl>>
    /\ bUrl # cBaseUrl
    /\ bDom > 0
    /\ cResults # <<>>

\* C11: when the element lookup of a selector has failed on every attempt,
\* the step that follows goes to the next selector of the same extraction
\* (to its end after the last selector) with results as it was; values
\* already found stay in results until the extraction returns, the crawl
\* merges all of them into its result and never loses one; and the crawl
\* goes on to return.
C11_SelectorFailureSkipsOnlyThatSelector ==
    /\ [][(ePc = "findElements" /\ rPc = "thrown") =>
            /\ eResults' = eResults
            /\ eSelector' = eSelector + 1
            /\ ePc' = (IF eSelector < NumSelectors THEN "findElements" ELSE "done")
            /\ cPc' = cPc
            /\ cResults' = cResults]_vars
    /\ [][(ePc \notin {"idle", "done"}) => (Range(eResults) \subseteq Range(eResults'))]_vars
    /\ [][(ePc = "done" /\ ePc' # "done") => (Range(eResults) \subseteq Range(cResults'))]_vars
    /\ [][Range(cResults) \subseteq Range(cResults')]_vars
    /\ ((ePc = "findElements" /\ rPc = "thrown") ~> (cPc = "done"))

\* The extraction of the seed page has returned: the lookup of the first
\* selector failed, the second selector yielded values.
C11_Witness ==
    /\ cPc = "pageExtract"
    /\ ePc = "done"
    /\ eSkipped = {1}
    /\ eSelector = NumSelectors + 1
    /\ eResults # <<>>

\* C12: an extraction returns only after every selector of the pattern has
\* been processed, also when the wait for body failed.
C12_Original ==
    ePc = "done" => eSelector = NumSelectors + 1

\* C13: the DOM is serialized again only after a click was carried out; the
\* extraction is run again exactly when that serialization was obtained and
\* differs from the one taken before the click; while the re-run goes on no
\* value leaves its results, its return merges every value into the crawl's
\* result, and the crawl's result never loses a value.
C13_RerunIffDomDiffers ==
    /\ [][(cPc' = "clickSettle" /\ cPc # "clickSettle") =>
            (cPc = "click" /\ rPc = "returned")]_vars
    /\ [][(cPc' = "afterState" /\ cPc # "afterState") => (cPc = "clickSettle")]_vars
    /\ [][(cPc = "afterState") =>
            /\ cAfterState' \in {-1, bDom}
            /\ (cPc' = "clickExtract") <=>
                   (cAfterState' # -1 /\ cAfterState' # cBeforeState)
            /\ (cPc' = "clickExtract") => (ePc' = "waitBody" /\ ePattern' = cPattern)]_vars
    /\ [][(cPc' = "clickExtract") => (cPc \in {"afterState", "clickExtract"})]_vars
    /\ [][(cPc = "clickExtract") =>
            IF ePc = "done"
              THEN Range(eResults) \subseteq Range(cResults')
              ELSE Range(eResults) \subseteq Range(eResults')]_vars
    /\ [][(cPc # "idle") => (Range(cResults) \subseteq Range(cResults'))]_vars

\* A click revealed content of the seed's document, the extraction run again
\* has returned, and it found a value the crawl's result did not hold.
C13_Witness ==
    /\ cPc = "clickExtract"
    /\ ePc = "done"
    /\ bUrl = cBaseUrl
    /\ cAfterState # cBeforeState
    /\ \E i \in 1..Len(eResults) : eResults[i] \notin Range(cResults)

\* Positions of crawlAndExtract: none of them is a failure raised to the caller.
CrawlPositions ==
    {"idle", "get", "waitBody", "settle", "pageExtract", "findInteractive",
     "visible", "beforeState", "click", "clickSettle", "afterState",
     "clickExtract", "done"}

\* C14: crawlAndExtract is never left by a failure; a step in which the
\* processing of a URL fails (driver.get, the wait for body, the lookup of
\* the interactive elements) ends in that URL's catch block, keeps the
\* crawl's result as it was and goes on with the loop test; the result
\* never loses a value; and every crawl that began returns.
C14_FailuresCaughtPartialResultsReturned ==
    /\ [](cPc \in CrawlPositions)
    /\ [][(cCaught' # cCaught) =>
            /\ cPc \in {"get", "waitBody", "findInteractive"}
            /\ cCaught' = cCaught \cup {cCurrentUrl}
            /\ cResults' = cResults
            /\ cPc' = (IF urlsToVisit # <<>> /\ Cardinality(visitedUrls) < MAX_PAGES
                         THEN "get" ELSE "done")]_vars
    /\ [][(cPc # "idle") => (Range(cResults) \subseteq Range(cResults'))]_vars
    /\ [][(cPc = "done") => (cPc' = "done" /\ cResults' = cResults)]_vars
    /\ ((cPc # "idle") ~> (cPc = "done"))

\* The crawl returned the values of the seed page after the lookup of the
\* interactive elements failed.
C14_Witness ==
    /\ cPc = "done"
    /\ cCaught = {cBaseUrl}
    /\ cResults # <<>>

(***************************************************************************)
(* Properties of determineDataTypes and of the registry                    *)
(***************************************************************************)
\* A synthesized specification with a name, a pattern list and a selector
\* list, none of them empty.
WellFormed(spec) ==
    /\ spec.name = "some"
    /\ spec.patterns = "some"
    /\ spec.config = "selectors"

\* C19: every synthesized entry of the registry has a non-empty name, a
\* non-empty pattern list and a non-empty selector list, and a call that
\* synthesized any other specification does not return a key for it.
C19_Original ==
    /\ \A i \in 1..Len(registry) :
         registry[i].key \in SynthKeys => WellFormed(registry[i].spec)
    /\ (dSynth # NoSynth /\ ~WellFormed(dSynth)) => dTypes = <<>>

\* C20: a call that returned without synthesizing a pattern returned a key of
\* the registry exactly when the text contains the key or the display name,
\* or the key's regex matches the text; the keys are in registry order, none
\* twice.
C20_Original ==
    (dText # "none" /\ ~dFailed /\ dSynth = NoSynth) =>
        /\ \A i \in 1..Len(registry) :
             (registry[i].key \in Range(dTypes)) <=>
                 \/ IncludesKey(dText, registry[i].key)
                 \/ IncludesName(dText, registry[i].key)
                 \/ Hits(dText, registry[i].key) # << >>
        /\ \A i, j \in 1..Len(dTypes) :
             i < j => \E m, n \in 1..Len(registry) :
                         m < n /\ registry[m].key = dTypes[i] /\ registry[n].key = dTypes[j]

(***************************************************************************)
(* Properties of the handlers                                              *)
(***************************************************************************)
\* C15: in either handler quit is never called more often than sessions were
\* created, and when the handler has returned, by whatever path, quit was
\* called once for the session it created (and never when it created none).
C15_QuitExactlyOncePerSession ==
    /\ hQuits <= hSessions
    /\ hSessions <= 1
    /\ hPc = "returned" => hQuits = hSessions

\* The profiles handler returned false after a failure with a session open.
C15_Witness ==
    /\ hPc = "returned"
    /\ hAction = "profiles"
    /\ hReturn = "false"
    /\ hSessions = 1
    /\ hQuits = 1

\* The failure message for a missing seed URL, per handler.
NotConfigured == IF hAction = "flexible" THEN NoUrlFlexible ELSE NoUrlProfiles

\* C16: a handler invoked with no URL in the request text and no WEBSITE_URL
\* setting returns false without having created a session, and the one
\* message it gave to callback is the not-configured failure.
C16_Original ==
    (hPc = "returned" /\ hRequest.url = "none" /\ hRequest.setting = "none") =>
        /\ hSessions = 0
        /\ hReturn = "false"
        /\ hCallbacks = << ErrorMessage(NotConfigured) >>

\* C17: a handler never ends other than by a return statement, and once a
\* failure reached its catch block it has given callback exactly one
\* message, that failure's, and the value it returns is false.
C17_FailureCaughtAtActionBoundary ==
    /\ hPc = "returned" => hReturn \in {"true", "false"}
    /\ (hFailure # "none" /\ hPc \in {"finally", "returned"}) =>
          /\ hReturn = "false"
          /\ hCallbacks = << ErrorMessage(hFailure) >>

\* The flexible handler returned after its seed navigation failed.
C17_Witness ==
    /\ hPc = "returned"
    /\ hAction = "flexible"
    /\ hFailure = "WebDriverError"
    /\ hSessions = 1
    /\ hReturn = "false"

\* C18: at most one operation on the session is outstanding, and none of the
\* operations of a wait race is outstanding once the handler has gone on to
\* its next call.
C18_Original ==
    /\ Cardinality(hRace) <= 1
    /\ hRace # {} => hPc = "race"

(***************************************************************************)
(* Further properties of retryOperation                                    *)
(***************************************************************************)
\* C30: retryOperation refreshes the page or sleeps only when another attempt
\* follows: while a refresh or a sleep is pending, fewer than maxRetries
\* attempts have been made.
C30_Original ==
    rPc \in {"refresh", "driverSleep", "timerSleep"} => rCalls < rMax

(***************************************************************************)
(* Further properties of crawlAndExtract                                   *)
(***************************************************************************)
\* retryOperation is running for one element: the read of its text or
\* attribute, its visibility check, or its click.
ElementRetry == ePc = "getText" \/ cPc \in {"visible", "click"}

\* C26: when an attempt of an element's operation raised a stale-reference
\* failure, a page refresh is the next step of retryOperation, or has been
\* done before the attempt that follows.
C26_Original ==
    (ElementRetry /\ rLastError.name = StaleName) => (rPc = "refresh" \/ rRefreshes > 0)

\* The positions of the loop body that follow a visibility check that
\* returned true: the DOM snapshots, the click and the extraction after it.
ElementWork == {"beforeState", "click", "clickSettle", "afterState", "clickExtract"}

\* The visibility check of the element in turn has ended without returning
\* true in the step taken: retryOperation raised, or it returned false.
VisibilityCheckEndsUnseen ==
    /\ cPc = "visible"
    /\ rPc = "thrown" \/ (rPc = "returned" /\ cDisplayed' = "false")

RetryRunning == rPc \in {"attempt", "refresh", "driverSleep", "timerSleep"}

\* crawlAndExtract is inside the loop over the interactive elements of a page.
ElementLoop == cPc = "visible" \/ cPc \in ElementWork

\* C28: every retry loop makes at most maxRetries attempts; the number of
\* elements of a page still to be processed never grows; the crawl loop loads
\* at most MAX_PAGES documents; a retry loop or an element loop that is
\* running is followed by the loop test of the crawl loop; and the crawl
\* returns and stays returned.
C28_CrawlTerminates ==
    /\ [](rCalls <= rMax /\ rRefreshes <= rCalls /\ Len(cNavigated) <= MAX_PAGES)
    /\ [][ElementLoop => cElements' <= cElements]_vars
    /\ ((RetryRunning \/ ElementLoop) ~> (cPc = "get" \/ cPc = "done"))
    /\ <>[](cPc = "done")

\* The crawl has returned after an element was found displayed and its
\* processing ended before the second DOM snapshot was obtained: the click
\* raised on each of its three attempts, or a snapshot failed.
C28_Witness ==
    /\ cPc = "done"
    /\ cDisplayed = "true"
    /\ cAfterState = -1
    /\ cNavigated = <<cBaseUrl>>
    /\ cElements = 0
    /\ cResults # <<>>

(***************************************************************************)
(* Further properties of the registry                                      *)
(***************************************************************************)
\* String.prototype.toLowerCase on the keys of the model.
KeyToLowerCase(key) == IF key = "Email" THEN "email" ELSE key

\* Every key is its own lower-case form.
LowercaseKeys(reg) == \A i \in 1..Len(reg) : KeyToLowerCase(reg[i].key) = reg[i].key

\* No key is held by two entries.
UniqueKeys(reg) == \A i, j \in 1..Len(reg) : reg[i].key = reg[j].key => i = j

\* Every entry of reg is an entry of regNext, unchanged and in its place.
KeepsRegistered(reg, regNext) ==
    /\ Len(reg) <= Len(regNext)
    /\ \A i \in 1..Len(reg) : regNext[i] = reg[i]

\* C29: in every reachable state every key of the registry is lowercase and
\* no two entries have the same key, and no step overwrites or removes an
\* entry.
C29_Original ==
    /\ [](LowercaseKeys(registry) /\ UniqueKeys(registry))
    /\ [][KeepsRegistered(registry, registry')]_vars

(***************************************************************************)
(* Further properties of the handlers                                      *)
(***************************************************************************)
\* The keys of the result mapping, in the order of their entries.
ResultKeys(results) == [i \in 1..Len(results) |-> results[i].key]

NoDuplicates(list) == \A i, j \in 1..Len(list) : list[i] = list[j] => i = j

IsPrefix(list, listNext) ==
    /\ Len(list) <= Len(listNext)
    /\ \A i \in 1..Len(list) : listNext[i] = list[i]

\* C22: when the flexible handler has returned true, the result mapping has
\* one entry for each key determineDataTypes returned and no other, no key
\* being returned twice; an entry is what the key's crawl returned, the empty
\* list included; and a crawl's result holds each value once, a value found
\* later being put after those found before.
C22_OneEntryPerKeyInDiscoveryOrder ==
    /\ []((hAction = "flexible" /\ hReturn = "true") =>
            (ResultKeys(hResults) = dTypes /\ NoDuplicates(dTypes)))
    /\ [](\A i \in 1..Len(hResults) : NoDuplicates(hResults[i].values))
    /\ [][hResults' # hResults =>
            /\ cPc = "done"
            /\ hResults' = Append(hResults, [key |-> Head(hTypes), values |-> cResults])]_vars
    /\ [][cPc \notin {"idle", "done"} => IsPrefix(cResults, cResults')]_vars
    /\ [][(cPc = "done" /\ hResults' = hResults) => cResults' = cResults]_vars

\* The handler returned true for two keys: the crawl of the first found
\* nothing, the crawl of the second found a value.
C22_Witness ==
    /\ hAction = "flexible"
    /\ hReturn = "true"
    /\ Len(hResults) = 2
    /\ hResults[1].values = <<>>
    /\ hResults[2].values # <<>>

(***************************************************************************)
(* Properties of the email and phone scenario                              *)
(***************************************************************************)
HasMailtoLink(page) ==
    \E i \in 1..Len(page) : page[i].tag = "a" /\ page[i].href = "mailto:a@b.com"

HasPhoneText(page) ==
    \E i \in 1..Len(page) : page[i].text = "call us at (555) 123-4567"

\* C21: for a seed page with a mailto:a@b.com link and the visible text
\* 'call us at (555) 123-4567', the result for the keys email and phone is
\* email = [a@b.com] and phone = [(555) 123-4567].
C21_Original ==
    (HasMailtoLink(sPage) /\ HasPhoneText(sPage) /\ Len(sResults) = 2) =>
        /\ sResults[1] = [key |-> "email", values |-> <<"a@b.com">>]
        /\ sResults[2] = [key |-> "phone", values |-> <<"(555) 123-4567">>]

(***************************************************************************)
(* Further properties of determineDataTypes                                *)
(***************************************************************************)
\* C31: a call of determineDataTypes that follows a call with the same text,
\* neither of them failing nor registering a pattern, returns the key list
\* the call before it returned.
C31_Original ==
    [][(/\ dText # "none" /\ dText' = dText
        /\ ~dFailed /\ ~dFailed'
        /\ dSynth = NoSynth /\ dSynth' = NoSynth
        /\ registry' = registry) => dTypes' = dTypes]_vars

\* C32: when the classifier was asked and answered with a key of the
\* registry, the call returned that key.
C32_Original ==
    (dText # "none" /\ ~dFailed /\ dAnswer \in RegistryKeys(registry)) =>
        dAnswer \in Range(dTypes)

(***************************************************************************)
(* Further properties of the pages of a crawl                              *)
(***************************************************************************)
\* C33: while crawlAndExtract runs the extraction again after a click, or
\* processes an interactive element, the URL of the document in the browser
\* is a member of visitedUrls.
C33_Original ==
    cPc \in {"visible", "beforeState", "click", "clickExtract"} => bUrl \in visitedUrls

(***************************************************************************)
(* Further properties of seleniumProfilesAction.handler                    *)
(***************************************************************************)
\* C34: when the processing of an interactive element begins, the browser is
\* on the URL it was on when the element list was collected, the URL the
\* handler loaded.
C34_Original ==
    (hAction = "profiles" /\ hPc = "refind") => bUrl = hUrl

\* The handles of the list have the value true in validatedProfiles.
CachedTrue(list) ==
    \A i \in 1..Len(list) : /\ MapHas(validatedProfiles, list[i])
                            /\ MapGet(validatedProfiles, list[i])

\* C35: every handle in the list extractProfilesFromCurrentPage is building
\* or has returned, and every handle in the list the profiles handler has
\* gathered and reports, has the value true in validatedProfiles of the
\* profiles action; a handle that has false there is in neither list.
C35_ReportedHandlesCachedTrue ==
    /\ CachedTrue(xProfiles)
    /\ CachedTrue(hProfiles)

\* The profiles handler has returned true reporting alice while bob, found on
\* the same pages, is cached as false.
C35_Witness ==
    /\ hAction = "profiles"
    /\ hReturn = "true"
    /\ hProfiles # <<>>
    /\ hProfiles[1] = "alice"
    /\ validatedProfiles["bob"] = "invalid"

(***************************************************************************)
(* Properties of TWITTER_TARGET_USERS                                      *)
(***************************************************************************)
\* The handles a list names.
Listed(list) == {Trim(list[i]) : i \in 1..Len(list)} \ {""}

\* No handle is named by two pieces of the list.
NoHandleTwice(list) ==
    \A i, j \in 1..Len(list) : (Trim(list[i]) = Trim(list[j]) /\ Trim(list[i]) # "") => i = j

\* C36: an update keeps every handle the list named before it, and a list
\* that named no handle twice names no handle twice after it.
C36_Original ==
    [][/\ Listed(targetUsers) \subseteq Listed(targetUsers')
       /\ NoHandleTwice(targetUsers) => NoHandleTwice(targetUsers')]_vars

====
